---- MODULE Spec2Model ----
(***************************************************************************)
(* Model of ugali's likelihood engine (src/analysis/likelihood.py):        *)
(* precomputeGridSearch, gridSearch, logLikelihoodSimple,                  *)
(* maximizeLogLikelihood and write.                                        *)
(*                                                                         *)
(* numpy float64 values are modelled as fixed-point numbers with Scale     *)
(* units per 1.0, together with the three IEEE special values NaN, +inf    *)
(* and -inf, which numpy produces (instead of raising) on 0/0, x/0 and     *)
(* log(0).                                                                 *)
(***************************************************************************)
EXTENDS Integers, Sequences, FiniteSets, TLC

\* ------------------------------------------------------------------------
\* Bounds of the model
\* ------------------------------------------------------------------------
\* fixed-point units per 1.0
Scale == 100000
\* largest finite magnitude, in units of 1.0; larger results overflow to inf
MaxFloat == 2000
\* number of catalog objects
NObj == 2
\* optimizer iterations explored before the model stops following the loop
MaxIteration == 9

MaxFin == MaxFloat * Scale

\* ------------------------------------------------------------------------
\* Floating point values
\* ------------------------------------------------------------------------
Fin(v) == [k |-> "fin", v |-> v]
NaN == [k |-> "nan", v |-> 0]
PosInf == [k |-> "inf", v |-> 1]
NegInf == [k |-> "inf", v |-> -1]
Zero == Fin(0)
One == Fin(Scale)

IsNaN(a) == a.k = "nan"
IsInf(a) == a.k = "inf"
IsFin(a) == a.k = "fin"

AbsInt(n) == IF n < 0 THEN -n ELSE n
SignInt(n) == IF n < 0 THEN -1 ELSE IF n > 0 THEN 1 ELSE 0

\* <<q, r>> with x * y = q * d + r and 0 <= r < d, for x, y >= 0 and d > 0,
\* computed bit by bit so that no intermediate exceeds the integer range
RECURSIVE MulDivRec(_, _, _)
MulDivRec(x, y, d) ==
    IF y = 0 THEN <<0, 0>>
    ELSE LET h == MulDivRec(x, y \div 2, d)
             t == 2 * h[2] + (IF y % 2 = 1 THEN x ELSE 0)
         IN  <<2 * h[1] + t \div d, t % d>>

\* x * y / d rounded to the nearest unit
MulDiv(x, y, d) ==
    LET h == MulDivRec(x, y, d)
    IN  IF 2 * h[2] >= d THEN h[1] + 1 ELSE h[1]

\* a finite result, or the infinity it overflows to
Overflow(v) ==
    IF v > MaxFin THEN PosInf ELSE IF v < -MaxFin THEN NegInf ELSE Fin(v)

Inf(s) == IF s < 0 THEN NegInf ELSE PosInf

\* sign of a non-NaN value: -1, 0, 1
FSign(a) == SignInt(a.v)

FNeg(a) == IF IsNaN(a) THEN NaN ELSE [k |-> a.k, v |-> -a.v]

FAdd(a, b) ==
    IF IsNaN(a) \/ IsNaN(b) THEN NaN
    ELSE IF IsInf(a) /\ IsInf(b) THEN (IF a.v = b.v THEN a ELSE NaN)
    ELSE IF IsInf(a) THEN a
    ELSE IF IsInf(b) THEN b
    ELSE Overflow(a.v + b.v)

FSub(a, b) == FAdd(a, FNeg(b))

FMul(a, b) ==
    IF IsNaN(a) \/ IsNaN(b) THEN NaN
    ELSE IF IsInf(a) \/ IsInf(b)
         THEN (IF FSign(a) * FSign(b) = 0 THEN NaN ELSE Inf(FSign(a) * FSign(b)))
    ELSE IF a.v = 0 \/ b.v = 0 THEN Zero
    ELSE LET x == IF AbsInt(a.v) > AbsInt(b.v) THEN AbsInt(a.v) ELSE AbsInt(b.v)
             y == IF AbsInt(a.v) > AbsInt(b.v) THEN AbsInt(b.v) ELSE AbsInt(a.v)
             s == FSign(a) * FSign(b)
         IN  IF x \div Scale > MaxFin \div y THEN Inf(s)
             ELSE Overflow(s * MulDiv(x, y, Scale))

FDiv(a, b) ==
    IF IsNaN(a) \/ IsNaN(b) THEN NaN
    ELSE IF IsInf(a) THEN (IF IsInf(b) THEN NaN
                           ELSE IF b.v < 0 THEN FNeg(a) ELSE a)
    ELSE IF IsInf(b) THEN Zero
    ELSE IF b.v = 0 THEN (IF a.v = 0 THEN NaN ELSE Inf(a.v))
    ELSE LET s == FSign(a) * FSign(b)
         IN  IF AbsInt(a.v) \div AbsInt(b.v) > MaxFin \div Scale THEN Inf(s)
             ELSE Overflow(s * MulDiv(AbsInt(a.v), Scale, AbsInt(b.v)))

\* a < b as numpy evaluates it: False when either side is NaN
FLt(a, b) ==
    IF IsNaN(a) \/ IsNaN(b) THEN FALSE
    ELSE IF IsInf(a) THEN (a.v < 0 /\ ~(IsInf(b) /\ b.v < 0))
    ELSE IF IsInf(b) THEN b.v > 0
    ELSE a.v < b.v

FAbs(a) == IF IsNaN(a) THEN NaN ELSE [k |-> a.k, v |-> AbsInt(a.v)]

\* natural logarithm of a finite positive fixed-point value v (v >= 1):
\* argument reduction to [1/sqrt 2, sqrt 2) by doubling / halving, then
\* ln(x) = 2 atanh(z), z = (x-1)/(x+1), summed to the seventh power
Ln2 == MulDiv(693147, Scale, 1000000)
Sqrt2 == MulDiv(1414214, Scale, 1000000)

RECURSIVE LnFix(_)
LnFix(v) ==
    IF 2 * v < Sqrt2 THEN LnFix(2 * v) - Ln2
    ELSE IF v >= Sqrt2 THEN LnFix(v \div 2) + Ln2
    ELSE LET sg == SignInt(v - Scale)
             z  == MulDiv(AbsInt(v - Scale), Scale, v + Scale)
             z2 == (z * z) \div Scale
             z3 == (z2 * z) \div Scale
             z5 == (z3 * z2) \div Scale
             z7 == (z5 * z2) \div Scale
         IN  sg * (2 * z + (2 * z3) \div 3 + (2 * z5) \div 5 + (2 * z7) \div 7)

\* numpy.log: log(0) = -inf, log(negative) = NaN, no exception
FLog(a) ==
    IF IsNaN(a) THEN NaN
    ELSE IF IsInf(a) THEN (IF a.v > 0 THEN PosInf ELSE NaN)
    ELSE IF a.v < 0 THEN NaN
    ELSE IF a.v = 0 THEN NegInf
    ELSE Fin(LnFix(a.v))

\* ------------------------------------------------------------------------
\* numpy reductions over one-dimensional arrays (sequences, 1-based here)
\* ------------------------------------------------------------------------
RECURSIVE FSumRec(_, _)
FSumRec(s, i) == IF i = 0 THEN Zero ELSE FAdd(FSumRec(s, i - 1), s[i])

\* numpy.sum
FSum(s) == FSumRec(s, Len(s))

RECURSIVE ArgMaxRec(_, _, _)
ArgMaxRec(s, i, best) ==
    IF i > Len(s) \/ IsNaN(s[best]) THEN best
    ELSE IF IsNaN(s[i]) \/ FLt(s[best], s[i]) THEN ArgMaxRec(s, i + 1, i)
    ELSE ArgMaxRec(s, i + 1, best)

ArgMaxMutant(s) == Len(s)

\* numpy.argmax: position of the first maximum; a NaN counts as the maximum
ArgMax(s) == ArgMaxRec(s, 2, 1)

\* numpy.max: the maximum, NaN when the array holds a NaN
NumpyMax(s) == s[ArgMax(s)]

\* numpy.isnan(a).any()
AnyNaN(s) == \E i \in 1..Len(s) : IsNaN(s[i])

\* numpy.any(a): some element is non-zero (NaN and inf are non-zero)
NumpyAny(s) == \E i \in 1..Len(s) : s[i] # Zero

\* ------------------------------------------------------------------------
\* ugali.utils.parabola.Parabola
\* ------------------------------------------------------------------------
None == [kind |-> "None"]

\* position of a sample in numpy.argsort order: NaN sorts last
SortsBefore(a, b) == IF IsNaN(b) THEN ~IsNaN(a) ELSE FLt(a, b)

RECURSIVE InsertSorted(_, _)
InsertSorted(s, e) ==
    IF s = <<>> THEN <<e>>
    ELSE IF SortsBefore(e[1], Head(s)[1]) THEN <<e>> \o s
    ELSE <<Head(s)>> \o InsertSorted(Tail(s), e)

RECURSIVE SortSamples(_)
SortSamples(s) ==
    IF s = <<>> THEN <<>>
    ELSE InsertSorted(SortSamples(SubSeq(s, 1, Len(s) - 1)), s[Len(s)])

\* the quadratic through three samples, and its vertex
FitQuadratic(x0, y0, x1, y1, x2, y2) ==
    LET d01 == FDiv(FSub(y1, y0), FSub(x1, x0))
        d12 == FDiv(FSub(y2, y1), FSub(x2, x1))
        p_2 == FDiv(FSub(d12, d01), FSub(x2, x0))
        p_1 == FSub(d01, FMul(p_2, FAdd(x0, x1)))
        p_0 == FSub(FSub(y0, FMul(p_1, x0)), FMul(p_2, FMul(x0, x0)))
    IN  [kind |-> "Parabola", p_2 |-> p_2, p_1 |-> p_1, p_0 |-> p_0,
         vertex_x |-> FDiv(FNeg(p_1), FMul(Fin(2 * Scale), p_2))]

\* Parabola(x, y): samples sorted by x, quadratic through the sample of
\* greatest y and its two neighbours
Parabola(x, y) ==
    LET s     == SortSamples([i \in 1..Len(x) |-> <<x[i], y[i]>>])
        n     == Len(s)
        index == ArgMax([i \in 1..n |-> s[i][2]])
        i0    == IF index = 1 THEN 1 ELSE IF index = n THEN n - 2 ELSE index - 1
    IN  FitQuadratic(s[i0][1], s[i0][2], s[i0 + 1][1], s[i0 + 1][2],
                     s[i0 + 2][1], s[i0 + 2][2])

\* ------------------------------------------------------------------------
\* Likelihood.logLikelihoodSimple
\* ------------------------------------------------------------------------
\* p = (richness * self.u) / ((richness * self.u) + self.b), per object
Membership(richness, uu, bb) ==
    [i \in 1..Len(uu) |->
        FDiv(FMul(richness, uu[i]), FAdd(FMul(richness, uu[i]), bb[i]))]

\* -1. * numpy.sum(numpy.log(1. - p)) - (self.f * richness)
logLikelihoodSimple(richness, uu, bb, ff) ==
    LET pp == Membership(richness, uu, bb)
    IN  FSub(FMul(Fin(-Scale),
                  FSum([i \in 1..Len(pp) |-> FLog(FSub(One, pp[i]))])),
             FMul(ff, richness))

\* ------------------------------------------------------------------------
\* Likelihood.maximizeLogLikelihood
\* ------------------------------------------------------------------------
\* tolerance=1.e-3, as a fraction TolNum / TolDen
TolNum == 1
TolDen == 1000

\* numpy.fabs(a - b) < tolerance
WithinTolerance(a, b) ==
    LET d == FAbs(FSub(a, b))
    IN  IsFin(d) /\ d.v <= (TolNum * Scale - 1) \div TolDen

\* the early return for a degenerate signal: 0., 0., 0., None
DegenerateResult ==
    [log_likelihood |-> Zero, richness |-> Zero, p |-> Zero, parabola |-> None]

\* the checks on self.u that precede the optimizer
SignalIsDegenerate(uu) == AnyNaN(uu) \/ ~NumpyAny(uu)

\* the locals before the first pass of the while loop
MaximizeSeed(uu, bb, ff) ==
    LET r1 == FDiv(One, ff)
        r2 == FDiv(Fin(10 * Scale), ff)
    IN  [richness       |-> <<Zero, r1, r2>>,
         log_likelihood |-> <<Zero, logLikelihoodSimple(r1, uu, bb, ff),
                                    logLikelihoodSimple(r2, uu, bb, ff)>>,
         found_maximum  |-> FALSE,
         iteration      |-> 0,
         parabola       |-> None]

\* parabola.vertex_x < 0.
VertexBelowZero(parabola) == FLt(parabola.vertex_x, Zero)

\* one pass of the while loop
MaximizeIterate(o, uu, bb, ff) ==
    LET parabola == Parabola(o.richness,
                             [i \in 1..Len(o.log_likelihood) |->
                                 FMul(Fin(2 * Scale), o.log_likelihood[i])])
    IN  IF VertexBelowZero(parabola)
        THEN [o EXCEPT !.parabola = parabola, !.found_maximum = TRUE,
                       !.iteration = @ + 1]
        ELSE LET ll == logLikelihoodSimple(parabola.vertex_x, uu, bb, ff)
             IN  [o EXCEPT !.parabola = parabola,
                           !.richness = Append(@, parabola.vertex_x),
                           !.log_likelihood = Append(@, ll),
                           !.found_maximum =
                               WithinTolerance(ll, NumpyMax(o.log_likelihood)),
                           !.iteration = @ + 1]

\* the statements after the loop
MaximizeResult(o, uu, bb) ==
    LET index == ArgMax(o.log_likelihood)
    IN  [log_likelihood |-> o.log_likelihood[index],
         richness       |-> o.richness[index],
         p              |-> Membership(o.richness[index], uu, bb),
         parabola       |-> o.parabola]

\* ------------------------------------------------------------------------
\* State
\* ------------------------------------------------------------------------
VARIABLES
    pc,         \* position of the program
    exception,  \* the exception that ended the run, "none" while running
    config,     \* config.params['likelihood']
    catalog,    \* self.catalog: the objects of the analysis catalog
    pixel_roi_cut,  \* self.pixel_roi_cut
    cmd_table,  \* what backgroundCMD yields for each catalog
    lut_table,     \* what readColorLUT yields for each distance modulus
    signal_table,  \* what signalColor yields for each distance modulus
    kernel_profile,  \* surface intensity of the kernel by angular separation
    calls,      \* collaborator calls made so far, in order
    log,        \* logger output made so far, in order
    distance_modulus_array,
    b,          \* self.b: per-object background weight
    u_color_array,
    observable_fraction_sparse_array,
    args,       \* arguments of the running gridSearch call
    ii,         \* index of the distance-modulus loop (from 0)
    jj,         \* index of the target-pixel loop (from 0)
    u_color,    \* self.u_color
    observable_fraction_sparse,
    kernel,     \* self.kernel.lon, self.kernel.lat
    u,          \* self.u: per-object signal weight
    f,          \* self.f: expected observable signal per unit richness
    opc,        \* position inside maximizeLogLikelihood
    opt,        \* locals of maximizeLogLikelihood
    ret,        \* value returned by maximizeLogLikelihood
    p,          \* membership probabilities last computed
    simple,     \* last call of logLikelihoodSimple: its argument and value
    log_likelihood_sparse_array,
    richness_sparse_array,
    richness_lower_sparse_array,
    richness_upper_sparse_array,
    richness_upper_limit_sparse_array,
    stellar_mass_sparse_array,
    fraction_observable_sparse_array,
    results,    \* value returned by the last grid-search routine
    outfile,    \* what write handed to writeSparseHealpixMap
    richness_error_sparse_array,  \* set by gridSearch2 only
    gs2,        \* locals of gridSearch2
    calls_left, \* number of grid-search routine calls still followed
    history,    \* the arrays each returned gridSearch call produced
    sc,         \* inputs and locals of a call of signalColor
    padova      \* inputs and progress of a call of Padova.run

envVars == <<config, catalog, pixel_roi_cut, cmd_table, lut_table,
             signal_table, kernel_profile>>
auxVars == <<sc, padova>>
callVars == <<richness_error_sparse_array, gs2, calls_left, history,
              auxVars>>
preVars == <<distance_modulus_array, b, u_color_array,
             observable_fraction_sparse_array>>
loopVars == <<args, ii, jj, u_color, observable_fraction_sparse, kernel>>
optVars == <<opc, opt, ret, p, simple>>
arrayVars == <<log_likelihood_sparse_array, richness_sparse_array,
               richness_lower_sparse_array, richness_upper_sparse_array,
               richness_upper_limit_sparse_array, stellar_mass_sparse_array,
               fraction_observable_sparse_array>>
vars == <<pc, exception, envVars, callVars, calls, log, preVars, loopVars,
          u, f, optVars, arrayVars, results, outfile>>

\* ------------------------------------------------------------------------
\* Python values that are not floats
\* ------------------------------------------------------------------------
PyNone == [kind |-> "NoneType", val |-> <<>>]
PyFalse == [kind |-> "bool", val |-> <<>>]
PyList(s) == [kind |-> "list", val |-> s]
NdArray(s) == [kind |-> "ndarray", val |-> s]
\* the exception a collaborator raises instead of returning
Raises(e) == [kind |-> e, val |-> <<>>]
\* a float computed by a collaborator whose arithmetic is not modelled
External(name) == [k |-> name, v |-> 0]

NoOpt == [richness |-> <<>>, log_likelihood |-> <<>>, found_maximum |-> FALSE,
          iteration |-> 0, parabola |-> None]
NoCall == [called |-> FALSE, richness |-> Zero, value |-> Zero]
NoArgs == [coords |-> <<>>, distance_modulus_index |-> <<>>]
NoKernel == [lon |-> 0, lat |-> 0]

\* ------------------------------------------------------------------------
\* The region of interest, the catalog and the collaborators
\* ------------------------------------------------------------------------
Objects == 1..NObj

\* self.roi.pixels and self.roi.pixels_target (HEALPix pixel numbers)
RoiPixels == <<11, 12, 13>>
pixels_target == <<11, 12>>
\* self.roi.pixel_interior_cut and self.roi.pixel_annulus_cut
pixel_interior_cut == <<TRUE, TRUE, FALSE>>
pixel_annulus_cut == <<FALSE, FALSE, TRUE>>
\* (self.roi.pixel_interior_cut) | (self.roi.pixel_annulus_cut)
InteriorOrAnnulus ==
    [k \in 1..Len(RoiPixels) |-> pixel_interior_cut[k] \/ pixel_annulus_cut[k]]

\* self.roi.area_pixel
area_pixel == One
\* pixel_roi_index of each object (from 1 here): objects alternate between
\* the first and the last pixel of the region
pixel_roi_index == [i \in Objects |-> IF i % 2 = 1 THEN 1 ELSE Len(RoiPixels)]

\* catalog_full: the objects 1..NObj and one more that is outside the
\* observable space of the mask
catalog_full == [i \in 1..(NObj + 1) |-> i]
\* self.mask.restrictCatalogToObservableSpace(self.catalog_full)
cut_observable == [k \in 1..Len(catalog_full) |-> catalog_full[k] \in Objects]
\* catalog.applyCut(cut): the objects at the positions where cut is True
applyCut(cat, cut) ==
    LET kept == SelectSeq([k \in 1..Len(cat) |-> k], LAMBDA k : cut[k])
    IN  [n \in 1..Len(kept) |-> cat[kept[n]]]
catalog_roi == applyCut(catalog_full, cut_observable)
\* self.roi.pixels_interior
pixels_interior ==
    {RoiPixels[k] : k \in {n \in 1..Len(RoiPixels) : pixel_interior_cut[n]}}
\* numpy.in1d(angToPix(nside, catalog_roi.lon, catalog_roi.lat),
\*            self.roi.pixels_interior)
cut_interior ==
    [k \in 1..Len(catalog_roi) |->
        RoiPixels[pixel_roi_index[catalog_roi[k]]] \in pixels_interior]
catalog_interior == applyCut(catalog_roi, cut_interior)

\* self.mask.backgroundCMD(catalog): the field density at each object
backgroundCMD(cat) == cmd_table[cat]
\* density of the field at each object of the analysis catalog:
\* take2D(cmd_background, self.catalog.color, self.catalog.mag, ...)
b_density(cmd_background) ==
    [k \in 1..Len(catalog) |-> cmd_background[catalog[k]]]
angsepMutant(j) == [k \in 1..Len(RoiPixels) |-> AbsInt(1 - k)]

\* self.roi.angsep[jj]: separation of target pixel jj from each ROI pixel
angsep(j) == [k \in 1..Len(RoiPixels) |-> AbsInt(j + 1 - k)]
\* self.roi.centers_lon_target, self.roi.centers_lat_target
centers_lon_target == [j \in 1..Len(pixels_target) |-> 10 * pixels_target[j]]
centers_lat_target == [j \in 1..Len(pixels_target) |-> -pixels_target[j]]
\* self.stellar_mass_conversion = self.isochrone.stellarMass()
stellar_mass_conversion == Fin(Scale \div 2)

\* self.delta_mag = 0.03
delta_mag == Fin((3 * Scale) \div 100)

\* self.kernel.surfaceIntensity(angsep), elementwise
surfaceIntensity(seps) ==
    [k \in 1..Len(seps) |->
        IF seps[k] + 1 <= Len(kernel_profile) THEN kernel_profile[seps[k] + 1]
        ELSE Zero]

\* the first distance modulus of the grids
FirstDM == 16

\* self.isochrone.observableFraction(self.mask, distance_modulus): the same
\* in every pixel, smaller at larger distance
observableFraction(distance_modulus) ==
    NdArray([k \in 1..Len(RoiPixels) |->
                Fin(Scale \div (distance_modulus - FirstDM + 2))])

\* an array with one value per object, for the objects of self.catalog
OfCatalog(byObject) == [k \in 1..Len(catalog) |-> byObject[catalog[k]]]

\* self.signalColor(distance_modulus)
signalColor(distance_modulus) ==
    NdArray(OfCatalog(signal_table[distance_modulus]))

\* ugali.analysis.color_lut.readColorLUT(infile, distance_modulus,
\*     self.catalog.mag_1, ...)
readColorLUT(distance_modulus) ==
    LET lut == lut_table[distance_modulus]
    IN  IF lut.kind = "ndarray" /\ lut.val # <<>>
        THEN NdArray(OfCatalog(lut.val))
        ELSE lut

\* ------------------------------------------------------------------------
\* Inputs
\* ------------------------------------------------------------------------
\* largest number of distance moduli in a grid
MaxDM == 2

Half == Fin(Scale \div 2)
Tiny == Fin(Scale \div 1000)
UValues == {Zero, Tiny, Half, Fin(Scale + Scale \div 2), NaN}
BValues == {Zero, One, Fin(2 * Scale)}
FValues == {Zero, Half, One, Fin(2 * Scale)}
RichnessArgs == {Zero, Half, One, Fin(10 * Scale)}

\* distance moduli 16, 17, ...; the grids are the prefixes of that list
DMValues == FirstDM..(FirstDM + MaxDM - 1)
DMArrays == {[i \in 1..n |-> FirstDM + i - 1] : n \in 0..MaxDM}
\* per-object color probabilities a provider can yield
UColorVectors == {[i \in Objects |-> Zero], [i \in Objects |-> One],
                  [i \in Objects |-> IF i = 1 THEN NaN ELSE One]}
\* what readColorLUT can do: fail to read the file, or return an array
LutArray == NdArray([i \in Objects |-> Fin(2 * Scale)])
LutOutcomes == {Raises("IOError"), NdArray(<<>>),
                NdArray([i \in Objects |-> Zero]), LutArray}
\* tables by distance modulus: one outcome for all of them, or the array
\* for the first and one outcome for the others
LutTables ==
    {[d \in DMValues |-> o] : o \in LutOutcomes} \cup
    {[d \in DMValues |-> IF d = FirstDM THEN LutArray ELSE o] :
        o \in LutOutcomes}
SignalTables ==
    {[d \in DMValues |-> IF d = FirstDM THEN v[1] ELSE v[2]] :
        v \in UColorVectors \X UColorVectors}
KernelProfiles == {<<One, Half, Zero>>, <<One, Zero, Zero>>}
\* (coords, distance_modulus_index) of a gridSearch call: an argument is a
\* sequence, empty for None; coords is given as the pixel that
\* healpy.ang2pix finds for it
GridCalls ==
    {[coords |-> c, distance_modulus_index |-> d] :
        c \in {<<>>, <<12>>, <<13>>}, d \in {<<>>, <<0>>, <<1>>}}

ZeroArrays(n) == [i \in 1..n |-> [j \in 1..Len(pixels_target) |-> Zero]]

\* the field density is the same for every object; the density found from
\* the interior catalog may differ from that found from the ROI catalog
Catalogs == {catalog_roi, catalog_interior}
FieldDensity == Fin(1000 * Scale)
CmdTables ==
    {[c \in Catalogs |->
         [i \in Objects |-> IF c = catalog_roi THEN FieldDensity ELSE d]] :
        d \in {FieldDensity, Fin((FieldDensity.v) \div 2), Zero}}

NoGs2 == [richness |-> <<>>, log_likelihood |-> <<>>, p |-> <<>>, f |-> Zero]
\* no call of signalColor, no call of Padova.run
NoColor == [in |-> <<>>]
NoPadova == [in |-> <<>>]
InitIdle == sc = NoColor /\ padova = NoPadova

InitCommon ==
    /\ exception = "none"
    /\ richness_error_sparse_array = <<>>
    /\ gs2 = NoGs2
    /\ history = <<>>
    /\ calls = <<>>
    /\ log = <<>>
    /\ distance_modulus_array = <<>>
    /\ u_color_array = PyNone
    /\ observable_fraction_sparse_array = PyNone
    /\ args = NoArgs
    /\ ii = 0
    /\ jj = 0
    /\ u_color = <<>>
    /\ observable_fraction_sparse = <<>>
    /\ kernel = NoKernel
    /\ opt = NoOpt
    /\ ret = DegenerateResult
    /\ p = <<>>
    /\ simple = NoCall
    /\ log_likelihood_sparse_array = <<>>
    /\ richness_sparse_array = <<>>
    /\ richness_lower_sparse_array = <<>>
    /\ richness_upper_sparse_array = <<>>
    /\ richness_upper_limit_sparse_array = <<>>
    /\ stellar_mass_sparse_array = <<>>
    /\ fraction_observable_sparse_array = <<>>
    /\ results = PyNone
    /\ outfile = PyNone

\* an instance whose u, b and f are set, about to evaluate the likelihood
InitOpt ==
    /\ InitCommon
    /\ InitIdle
    /\ pc = "maximize"
    /\ opc = "entry"
    /\ config = [full_pdf |-> FALSE, color_lut_infile |-> FALSE,
                 interior_roi |-> <<FALSE>>]
    /\ catalog = catalog_roi
    /\ pixel_roi_cut = InteriorOrAnnulus
    /\ cmd_table \in {t \in CmdTables : t[catalog_interior] = t[catalog_roi]}
    /\ calls_left = 0
    /\ lut_table = [d \in DMValues |-> NdArray(<<>>)]
    /\ signal_table = [d \in DMValues |-> [i \in Objects |-> Zero]]
    /\ kernel_profile = <<One, Zero, Zero>>
    /\ u \in [Objects -> UValues]
    /\ b \in [Objects -> BValues]
    /\ f \in FValues

\* the collaborators and the configuration, before Likelihood(...) is
\* constructed from them; a key of config is a sequence, empty when the
\* key is absent
Init ==
    /\ InitCommon
    /\ InitIdle
    /\ pc = "new"
    /\ opc = "none"
    /\ config \in [full_pdf : BOOLEAN, color_lut_infile : BOOLEAN,
                   interior_roi : {<<>>, <<FALSE>>, <<TRUE>>}]
    /\ catalog = <<>>
    /\ pixel_roi_cut = <<>>
    /\ cmd_table \in {t \in CmdTables : t[catalog_interior] = t[catalog_roi]}
    /\ calls_left = 1
    /\ lut_table \in LutTables
    /\ config.color_lut_infile = FALSE =>
           lut_table = [d \in DMValues |-> NdArray(<<>>)]
    /\ signal_table \in SignalTables
    /\ kernel_profile \in KernelProfiles
    /\ u = <<>>
    /\ b = <<>>
    /\ f = Zero

\* ------------------------------------------------------------------------
\* Actions: the constructor
\* ------------------------------------------------------------------------
\* config.params['likelihood'] after the default of interior_roi is set
WithDefault(params) ==
    IF params.interior_roi = <<>>
    THEN [params EXCEPT !.interior_roi = <<FALSE>>]
    ELSE params

DefaultCatalogMutant(interior_roi) ==
    IF interior_roi
    THEN [catalog |-> catalog_interior, pixel_roi_cut |-> InteriorOrAnnulus]
    ELSE [catalog |-> catalog_roi, pixel_roi_cut |-> InteriorOrAnnulus]

\* the catalog and the pixel cut that go with interior_roi
DefaultCatalog(interior_roi) ==
    IF interior_roi
    THEN [catalog |-> catalog_interior, pixel_roi_cut |-> pixel_interior_cut]
    ELSE [catalog |-> catalog_roi, pixel_roi_cut |-> InteriorOrAnnulus]

\* Likelihood.__init__
Construct ==
    /\ pc = "new"
    /\ config' = WithDefault(config)
    /\ catalog' = DefaultCatalog(config'.interior_roi[1]).catalog
    /\ pixel_roi_cut' = DefaultCatalog(config'.interior_roi[1]).pixel_roi_cut
    /\ calls' = calls \o <<(<<"restrictCatalogToObservableSpace">>),
                           <<"stellarMass">>>>
    /\ log' = Append(log, <<"info", IF config'.interior_roi[1]
                                    THEN "Using interior ROI"
                                    ELSE "Using full ROI">>)
    /\ pc' = "constructed"
    /\ UNCHANGED <<exception, cmd_table, lut_table, signal_table,
                   kernel_profile, callVars, preVars, loopVars, u, f,
                   optVars, arrayVars, results, outfile>>

\* ------------------------------------------------------------------------
\* Actions: logLikelihoodSimple and maximizeLogLikelihood
\* ------------------------------------------------------------------------
\* a call logLikelihoodSimple(richness)
CallLogLikelihoodSimple ==
    /\ opc = "entry"
    /\ \E richness \in RichnessArgs :
          /\ simple' = [called |-> TRUE, richness |-> richness,
                        value |-> logLikelihoodSimple(richness, u, b, f)]
          /\ p' = Membership(richness, u, b)
    /\ UNCHANGED <<pc, exception, envVars, callVars, calls, log, preVars,
                   loopVars,
                   u, f, opc, opt, ret, arrayVars, results, outfile>>

\* maximizeLogLikelihood up to the while loop
MaximizeBegin ==
    /\ opc = "entry"
    /\ IF AnyNaN(u)
       THEN /\ log' = Append(log, <<"warning", "NaN signal probability found">>)
            /\ ret' = DegenerateResult
            /\ opc' = "returned"
            /\ opt' = NoOpt
       ELSE IF ~NumpyAny(u)
       THEN /\ log' = Append(log, <<"warning",
                             "Signal probability is zero for all objects">>)
            /\ ret' = DegenerateResult
            /\ opc' = "returned"
            /\ opt' = NoOpt
       ELSE /\ opt' = MaximizeSeed(u, b, f)
            /\ opc' = "loop"
            /\ UNCHANGED <<ret, log>>
    /\ UNCHANGED <<pc, exception, envVars, callVars, calls, preVars, loopVars,
                   u, f,
                   p, simple, arrayVars, results, outfile>>

\* one pass of the while loop
MaximizeLoop ==
    /\ opc = "loop"
    /\ ~opt.found_maximum
    /\ opt.iteration < MaxIteration
    /\ opt' = MaximizeIterate(opt, u, b, f)
    /\ UNCHANGED <<pc, exception, envVars, callVars, calls, log, preVars,
                   loopVars,
                   u, f, opc, ret, p, simple, arrayVars, results, outfile>>

\* loop exit and return
MaximizeReturn ==
    /\ opc = "loop"
    /\ opt.found_maximum
    /\ ret' = MaximizeResult(opt, u, b)
    /\ p' = ret'.p
    /\ opc' = "returned"
    /\ UNCHANGED <<pc, exception, envVars, callVars, calls, log, preVars,
                   loopVars,
                   u, f, opt, simple, arrayVars, results, outfile>>

NextOpt ==
    \/ CallLogLikelihoodSimple
    \/ MaximizeBegin
    \/ MaximizeLoop
    \/ MaximizeReturn

SpecOpt == InitOpt /\ [][NextOpt]_vars

\* ------------------------------------------------------------------------
\* Actions: precomputeGridSearch
\* ------------------------------------------------------------------------
\* numpy.any of a value stored in u_color_array
AnyOf(x) == x.kind = "ndarray" /\ NumpyAny(x.val)

\* precomputeGridSearch up to its loop over the distance moduli
PrecomputeBegin ==
    /\ pc = "constructed"
    /\ \E dma \in DMArrays :
          /\ distance_modulus_array' = dma
          /\ u_color_array' = PyList([i \in 1..Len(dma) |-> PyList(<<>>)])
          /\ observable_fraction_sparse_array' =
                 PyList([i \in 1..Len(dma) |-> PyList(<<>>)])
    /\ calls' = calls \o <<(<<"precomputeAngsep">>), <<"backgroundCMD">>>>
    /\ b' = [k \in 1..Len(catalog) |->
                FMul(FMul(b_density(backgroundCMD(catalog_roi))[k],
                          area_pixel),
                     FMul(delta_mag, delta_mag))]
    /\ ii' = 0
    /\ pc' = "precompute"
    /\ UNCHANGED <<exception, envVars, callVars, log, args, jj, u_color,
                   observable_fraction_sparse, kernel, u, f, optVars,
                   arrayVars, results, outfile>>

\* one pass of the loop over the distance moduli
PrecomputeDistance ==
    /\ pc = "precompute"
    /\ ii < Len(distance_modulus_array)
    /\ LET distance_modulus == distance_modulus_array[ii + 1]
           configured == config.color_lut_infile
           lut == readColorLUT(distance_modulus)
           lutCall == IF configured
                      THEN <<(<<"readColorLUT", distance_modulus>>)>>
                      ELSE <<>>
           first == IF configured THEN lut ELSE PyFalse
       IN  IF configured /\ lut.kind = "IOError"
           THEN /\ u_color_array' =
                       [u_color_array EXCEPT !.val[ii + 1] = PyFalse]
                /\ calls' = calls \o lutCall
                /\ exception' = "IOError"
                /\ pc' = "raised"
                /\ UNCHANGED <<observable_fraction_sparse_array, ii>>
           ELSE /\ u_color_array' =
                       [u_color_array EXCEPT !.val[ii + 1] =
                           IF AnyOf(first) THEN first
                           ELSE signalColor(distance_modulus)]
                /\ observable_fraction_sparse_array' =
                       [observable_fraction_sparse_array EXCEPT
                           !.val[ii + 1] = observableFraction(distance_modulus)]
                /\ calls' = calls \o lutCall
                       \o (IF AnyOf(first) THEN <<>>
                           ELSE <<(<<"signalColor", distance_modulus>>)>>)
                       \o <<(<<"observableFraction", distance_modulus>>)>>
                /\ ii' = ii + 1
                /\ UNCHANGED <<exception, pc>>
    /\ UNCHANGED <<envVars, callVars, log, distance_modulus_array, b, args,
                   jj, u_color,
                   observable_fraction_sparse, kernel, u, f, optVars,
                   arrayVars, results, outfile>>

\* after the loop: self.u_color_array = numpy.array(self.u_color_array)
PrecomputeEnd ==
    /\ pc = "precompute"
    /\ ii = Len(distance_modulus_array)
    /\ u_color_array' =
           NdArray([i \in 1..Len(u_color_array.val) |->
                       u_color_array.val[i].val])
    /\ pc' = "ready"
    /\ UNCHANGED <<exception, envVars, callVars, calls, log,
                   distance_modulus_array, b,
                   observable_fraction_sparse_array, loopVars, u, f, optVars,
                   arrayVars, results, outfile>>

\* ------------------------------------------------------------------------
\* Actions: gridSearch
\* ------------------------------------------------------------------------
\* coords is not None and distance_modulus_index is not None
SpecificPixel(a) == a.coords # <<>> /\ a.distance_modulus_index # <<>>

\* self.u_color_array[ii], self.observable_fraction_sparse_array[ii]
PrecomputedAtMutant(array, index) == array.val[1]

PrecomputedAt(array, index) == array.val[index + 1]

\* gridSearch up to its loop over the distance moduli
GridSearchBegin ==
    /\ pc = "ready"
    /\ \E a \in GridCalls : args' = a
    /\ log_likelihood_sparse_array' = ZeroArrays(Len(distance_modulus_array))
    /\ richness_sparse_array' = ZeroArrays(Len(distance_modulus_array))
    /\ richness_lower_sparse_array' = ZeroArrays(Len(distance_modulus_array))
    /\ richness_upper_sparse_array' = ZeroArrays(Len(distance_modulus_array))
    /\ richness_upper_limit_sparse_array' =
           ZeroArrays(Len(distance_modulus_array))
    /\ stellar_mass_sparse_array' = ZeroArrays(Len(distance_modulus_array))
    /\ fraction_observable_sparse_array' =
           ZeroArrays(Len(distance_modulus_array))
    /\ ii' = 0
    /\ pc' = "row"
    /\ UNCHANGED <<exception, envVars, callVars, calls, log, preVars, jj,
                   u_color,
                   observable_fraction_sparse, kernel, u, f, optVars,
                   results, outfile>>

\* head of the loop over the distance moduli
GridRow ==
    /\ pc = "row"
    /\ IF ii = Len(distance_modulus_array)
       THEN /\ results' = PyNone
            /\ pc' = "searched"
            /\ UNCHANGED <<ii, jj, u_color, observable_fraction_sparse>>
       ELSE IF SpecificPixel(args) /\ ii # args.distance_modulus_index[1]
       THEN /\ ii' = ii + 1
            /\ UNCHANGED <<pc, jj, u_color, observable_fraction_sparse,
                           results>>
       ELSE /\ u_color' = PrecomputedAt(u_color_array, ii)
            /\ observable_fraction_sparse' =
                   PrecomputedAt(observable_fraction_sparse_array, ii).val
            /\ jj' = 0
            /\ pc' = "cell"
            /\ UNCHANGED <<ii, results>>
    /\ UNCHANGED <<exception, envVars, callVars, calls, log, preVars, args,
                   kernel,
                   u, f, optVars, arrayVars, outfile>>

\* numpy.sum(surface_intensity_sparse[cut] * observable_fraction_sparse[cut])
SumOverCut(surface_intensity_sparse, fraction, cut) ==
    FSum([k \in 1..Len(cut) |->
             IF cut[k] THEN FMul(surface_intensity_sparse[k], fraction[k])
             ELSE Zero])

\* head of the loop over the target pixels, up to the optimizer call
GridCellEnter ==
    /\ pc = "cell"
    /\ jj < Len(pixels_target)
    /\ IF SpecificPixel(args) /\ pixels_target[jj + 1] # args.coords[1]
       THEN /\ jj' = jj + 1
            /\ UNCHANGED <<pc, kernel, u, f, opc, calls>>
       ELSE LET angsep_sparse == angsep(jj)
                surface_intensity_sparse == surfaceIntensity(angsep_sparse)
            IN  /\ kernel' = [lon |-> centers_lon_target[jj + 1],
                              lat |-> centers_lat_target[jj + 1]]
                /\ calls' = calls \o <<(<<"surfaceIntensity", jj>>),
                                       <<"maximizeLogLikelihood", ii, jj>>>>
                /\ u' = [k \in 1..Len(catalog) |->
                            FMul(FMul(area_pixel,
                                      surface_intensity_sparse[
                                          pixel_roi_index[catalog[k]]]),
                                 u_color[k])]
                /\ f' = FMul(area_pixel,
                             SumOverCut(surface_intensity_sparse,
                                        observable_fraction_sparse,
                                        pixel_roi_cut))
                /\ opc' = "entry"
                /\ pc' = "maximize"
                /\ UNCHANGED jj
    /\ UNCHANGED <<exception, envVars, callVars, log, preVars, args, ii,
                   u_color,
                   observable_fraction_sparse, opt, ret, p, simple,
                   arrayVars, results, outfile>>

\* the profile of a cell is wanted
WantsProfile == config.full_pdf \/ SpecificPixel(args)

\* from the return of the optimizer to the end of the loop body
GridCellStore ==
    /\ pc = "maximize"
    /\ opc = "returned"
    /\ opc' = "none"
    /\ log_likelihood_sparse_array' =
           [log_likelihood_sparse_array EXCEPT
               ![ii + 1][jj + 1] = ret.log_likelihood]
    /\ richness_sparse_array' =
           [richness_sparse_array EXCEPT ![ii + 1][jj + 1] = ret.richness]
    /\ stellar_mass_sparse_array' =
           [stellar_mass_sparse_array EXCEPT
               ![ii + 1][jj + 1] = FMul(stellar_mass_conversion, ret.richness)]
    /\ fraction_observable_sparse_array' =
           [fraction_observable_sparse_array EXCEPT ![ii + 1][jj + 1] = f]
    /\ IF WantsProfile /\ ret.parabola = None
       THEN \* None has no attribute profileUpperLimit
            /\ exception' = "AttributeError"
            /\ pc' = "raised"
            /\ UNCHANGED <<richness_lower_sparse_array,
                           richness_upper_sparse_array,
                           richness_upper_limit_sparse_array, results, jj>>
       ELSE IF WantsProfile
       THEN /\ richness_lower_sparse_array' =
                   [richness_lower_sparse_array EXCEPT
                       ![ii + 1][jj + 1] = External("confidenceInterval[0]")]
            /\ richness_upper_sparse_array' =
                   [richness_upper_sparse_array EXCEPT
                       ![ii + 1][jj + 1] = External("confidenceInterval[1]")]
            /\ richness_upper_limit_sparse_array' =
                   [richness_upper_limit_sparse_array EXCEPT
                       ![ii + 1][jj + 1] = External("bayesianUpperLimit")]
            /\ IF SpecificPixel(args)
               THEN /\ results' =
                           PyList(<<ret.richness, ret.log_likelihood,
                                    External("confidenceInterval[0]"),
                                    External("confidenceInterval[1]"),
                                    External("bayesianUpperLimit"),
                                    External("richness"),
                                    External("log_likelihood"),
                                    ret.p, f>>)
                    /\ pc' = "searched"
                    /\ UNCHANGED jj
               ELSE /\ jj' = jj + 1
                    /\ pc' = "cell"
                    /\ UNCHANGED results
            /\ UNCHANGED exception
       ELSE /\ jj' = jj + 1
            /\ pc' = "cell"
            /\ UNCHANGED <<richness_lower_sparse_array,
                           richness_upper_sparse_array,
                           richness_upper_limit_sparse_array, results,
                           exception>>
    /\ UNCHANGED <<envVars, callVars, calls, log, preVars, args, ii, u_color,
                   observable_fraction_sparse, kernel, u, f, opt, ret, p,
                   simple, outfile>>

\* after the loop over the target pixels: the maximum of the row is logged
GridRowEnd ==
    /\ pc = "cell"
    /\ jj = Len(pixels_target)
    /\ LET jj_max == ArgMax(log_likelihood_sparse_array[ii + 1]) - 1
       IN  log' = Append(log, <<"info", "Maximum at", ii, jj_max>>)
    /\ ii' = ii + 1
    /\ pc' = "row"
    /\ UNCHANGED <<exception, envVars, callVars, calls, preVars, args, jj,
                   u_color,
                   observable_fraction_sparse, kernel, u, f, optVars,
                   arrayVars, results, outfile>>

\* ------------------------------------------------------------------------
\* Actions: write
\* ------------------------------------------------------------------------
\* numpy.ndarray.transpose of a (len(distance_modulus_array), n_pixels) array
Transpose(a) ==
    [j \in 1..Len(pixels_target) |-> [i \in 1..Len(a) |-> a[i][j]]]

\* numpy.ndarray.flatten of an array with one column
Flatten(a) == [j \in 1..Len(a) |-> a[j][1]]

\* round(x, ndigits) of Python 2: to the nearest multiple of 10^-ndigits,
\* halves away from zero; a step finer than 1/Scale leaves x as it is
Round(x, ndigits) ==
    LET step == Scale \div (10 ^ ndigits)
    IN  IF ~IsFin(x) \/ step <= 1 THEN x
        ELSE Fin(SignInt(x.v) * (((2 * AbsInt(x.v) + step) \div (2 * step))
                                    * step))

LayersMutant ==
    <<(<<"LOG_LIKELIHOOD", log_likelihood_sparse_array>>),
      <<"RICHNESS", richness_sparse_array>>,
      <<"RICHNESS_LOWER", richness_lower_sparse_array>>,
      <<"RICHNESS_UPPER", richness_upper_sparse_array>>,
      <<"RICHNESS_LIMIT", richness_upper_limit_sparse_array>>,
      <<"FRACTION_OBSERVABLE", fraction_observable_sparse_array>>>>

\* the layers of data_dict, in the order the literal lists them
Layers ==
    IF config.full_pdf
    THEN <<(<<"LOG_LIKELIHOOD", log_likelihood_sparse_array>>),
           <<"RICHNESS", richness_sparse_array>>,
           <<"RICHNESS_LOWER", richness_lower_sparse_array>>,
           <<"RICHNESS_UPPER", richness_upper_sparse_array>>,
           <<"RICHNESS_LIMIT", richness_upper_limit_sparse_array>>,
           <<"FRACTION_OBSERVABLE", fraction_observable_sparse_array>>>>
    ELSE <<(<<"LOG_LIKELIHOOD", log_likelihood_sparse_array>>),
           <<"RICHNESS", richness_sparse_array>>,
           <<"FRACTION_OBSERVABLE", fraction_observable_sparse_array>>>>

Write ==
    /\ pc = "searched"
    /\ outfile' =
           [kind |-> "map",
            val |-> <<pixels_target,
                      [k \in 1..Len(Layers) |->
                          <<Layers[k][1],
                            IF Len(distance_modulus_array) = 1
                            THEN Flatten(Transpose(Layers[k][2]))
                            ELSE Transpose(Layers[k][2])>>],
                      distance_modulus_array,
                      <<"STELLAR", Round(stellar_mass_conversion, 8)>>>>]
    /\ pc' = "written"
    /\ UNCHANGED <<exception, envVars, callVars, calls, log, preVars,
                   loopVars, u, f,
                   optVars, arrayVars, results>>

Next ==
    \/ Construct
    \/ PrecomputeBegin
    \/ PrecomputeDistance
    \/ PrecomputeEnd
    \/ GridSearchBegin
    \/ GridRow
    \/ GridCellEnter
    \/ MaximizeBegin
    \/ MaximizeLoop
    \/ MaximizeReturn
    \/ GridCellStore
    \/ GridRowEnd
    \/ Write

Spec == Init /\ [][Next]_vars

\* ------------------------------------------------------------------------
\* Properties of logLikelihoodSimple and maximizeLogLikelihood (SpecOpt)
\* ------------------------------------------------------------------------
\* signal and background weights are numbers, u >= 0 and b >= 0
WeightsAreNumbers ==
    \A i \in Objects : IsFin(u[i]) /\ u[i].v >= 0 /\ IsFin(b[i]) /\ b[i].v >= 0

\* every object has a positive background weight, and f > 0
WellPosed ==
    /\ WeightsAreNumbers
    /\ \A i \in Objects : b[i].v > 0
    /\ IsFin(f) /\ f.v > 0

\* dL/dr at richness 0: sum(u / b) - f
SlopeAtZero == FSub(FSum([i \in Objects |-> FDiv(u[i], b[i])]), f)

Tolerance == Fin((TolNum * Scale) \div TolDen)

\* C2: logLikelihoodSimple(0) is 0 for any signal weights u, any background
\* weights b and any f, also when some background weight is 0.
C2_LogLikelihoodAtZeroIsZero ==
    (WeightsAreNumbers /\ simple.called /\ simple.richness = Zero)
        => simple.value = Zero

\* the richness at which p was last computed
RichnessOfP == IF opc = "returned" THEN ret.richness ELSE simple.richness

\* C3: for richness r >= 0, u >= 0 and b >= 0 every membership probability
\* computed by the likelihood functions is a number in [0, 1).
C3_MembershipInUnitInterval ==
    (WeightsAreNumbers /\ IsFin(RichnessOfP) /\ RichnessOfP.v >= 0)
        => \A i \in DOMAIN p : IsFin(p[i]) /\ 0 <= p[i].v /\ p[i].v < Scale

\* the log-likelihood decreases from richness 0: non-positive slope at 0 for
\* the concave L, and seed samples L(0) = 0 > L(1/f) > L(10/f)
Decreasing ==
    /\ WellPosed
    /\ NumpyAny(u)
    /\ ~FLt(Zero, SlopeAtZero)
    /\ opc \in {"loop", "returned"}
    /\ Len(opt.log_likelihood) >= 3
    /\ FLt(opt.log_likelihood[2], Zero)
    /\ FLt(opt.log_likelihood[3], opt.log_likelihood[2])

ProbeStep == Scale \div 10
ProbeCount == 40
ProbeRichness == {Fin(k * ProbeStep) : k \in 0..ProbeCount}

\* the log-likelihood has its maximum at a richness r* > 0
InteriorMaximum == WellPosed /\ FLt(Zero, SlopeAtZero)

\* C5: for a log-likelihood with an interior maximum at r* > 0 the returned
\* log-likelihood is within the tolerance of L(r*): no richness has a
\* log-likelihood that exceeds the returned one by the tolerance or more.
C5_ReturnsWithinToleranceOfMaximum ==
    (InteriorMaximum /\ opc = "returned") =>
        \A r \in ProbeRichness :
            FLt(FSub(logLikelihoodSimple(r, u, b, f), ret.log_likelihood),
                Tolerance)

\* C6: the optimizer loop is bounded by an iteration cap: it never goes on
\* past the cap without the tolerance condition or a negative vertex.
C6_LoopBoundedByIterationCap ==
    (opc = "loop" /\ ~opt.found_maximum) => opt.iteration < MaxIteration

\* ------------------------------------------------------------------------
\* Properties of precomputeGridSearch, gridSearch and write (Spec)
\* ------------------------------------------------------------------------
\* the optimizer has returned to gridSearch for a grid point whose signal
\* weights are all zero or contain a NaN
DegenerateCellReturned ==
    pc = "maximize" /\ opc = "returned" /\ SignalIsDegenerate(u)

\* C1: a grid point whose signal weight u is all-zero or contains a NaN is
\* reported with log-likelihood 0 and richness 0, no exception is raised and
\* the search goes on, with full_pdf and in the narrowed mode as well.
C1_DegenerateCellIsZeroRow ==
    [][DegenerateCellReturned =>
          /\ exception' = "none"
          /\ pc' \in {"cell", "searched"}
          /\ log_likelihood_sparse_array'[ii + 1][jj + 1] = Zero
          /\ richness_sparse_array'[ii + 1][jj + 1] = Zero]_vars

\* gridSearch has started
GridSearchStarted == pc \in {"row", "cell", "maximize", "searched", "written"}

\* C7: with an empty distance_modulus_array an error is raised before
\* gridSearch does any work: gridSearch never runs on an empty grid.
C7_EmptyGridIsFatalAtSetup ==
    GridSearchStarted => distance_modulus_array # <<>>

\* the entry of u_color_array for the distance modulus at index i (from 1)
StoredColor(i) ==
    IF u_color_array.kind = "list" THEN u_color_array.val[i].val
    ELSE u_color_array.val[i]

\* the array the fallback rule chooses for a distance modulus
ExpectedColor(distance_modulus) ==
    LET lut == lut_table[distance_modulus]
    IN  IF config.color_lut_infile /\ AnyOf(lut)
        THEN OfCatalog(lut.val)
        ELSE OfCatalog(signal_table[distance_modulus])

\* number of distance moduli whose pass of the precompute loop is over
Precomputed == IF pc = "precompute" THEN ii ELSE Len(distance_modulus_array)

\* C8: for every distance modulus a configured lookup table that yields a
\* non-empty array is used as u_color; with no lookup, an empty or all-zero
\* lookup, or an unreadable lookup file, u_color is computed by signalColor
\* and precompute goes on with the remaining distance moduli.
C8_LookupFallsBackToSignalColor ==
    /\ exception # "IOError"
    /\ u_color_array.kind # "NoneType" =>
          \A i \in 1..Precomputed :
              StoredColor(i) = ExpectedColor(distance_modulus_array[i])

\* the calls of one collaborator, as the sequence of their arguments
CallsOf(name) ==
    LET named == SelectSeq(calls, LAMBDA c : c[1] = name)
    IN  [k \in 1..Len(named) |-> named[k][2]]

\* the calls that obtain a precomputed array
IsProviderCall(c) ==
    c[1] \in {"signalColor", "readColorLUT", "observableFraction"}

IsSubSeqOfGrid(s) ==
    /\ Len(s) <= Len(distance_modulus_array)
    /\ \A k \in 1..Len(s) : \E i \in k..Len(distance_modulus_array) :
          s[k] = distance_modulus_array[i]
    /\ \A k, l \in 1..Len(s) : k < l => s[k] < s[l]

\* precompute is over: each array was obtained once per distance modulus, in
\* grid order, and is stored at the index of its distance modulus
ObtainedOnce ==
    (GridSearchStarted \/ pc = "ready") =>
        /\ CallsOf("observableFraction") = distance_modulus_array
        /\ IsSubSeqOfGrid(CallsOf("signalColor"))
        /\ IsSubSeqOfGrid(CallsOf("readColorLUT"))
        /\ \A i \in 1..Len(distance_modulus_array) :
              LET distance_modulus == distance_modulus_array[i]
              IN  /\ observable_fraction_sparse_array.val[i] =
                         observableFraction(distance_modulus)
                  /\ u_color_array.val[i] \in
                         {signalColor(distance_modulus).val,
                          readColorLUT(distance_modulus).val}
                  /\ \E k \in 1..Len(calls) :
                         /\ calls[k][1] \in {"signalColor", "readColorLUT"}
                         /\ calls[k][2] = distance_modulus

\* a target pixel is being evaluated: it reads the arrays cached for ii
ReadsCache ==
    pc \in {"cell", "maximize"} =>
        /\ u_color = u_color_array.val[ii + 1]
        /\ observable_fraction_sparse =
               observable_fraction_sparse_array.val[ii + 1].val

\* gridSearch makes no call that obtains a precomputed array
NoProviderCallInGridSearch ==
    [][GridSearchStarted =>
          /\ SelectSeq(calls', IsProviderCall) = SelectSeq(calls, IsProviderCall)
          /\ u_color_array' = u_color_array
          /\ observable_fraction_sparse_array' =
                 observable_fraction_sparse_array]_vars

\* C9: over precomputeGridSearch followed by gridSearch the color-match
\* array and the observable-fraction array are obtained once per distance
\* modulus, in grid order, and stored at its index; gridSearch never calls
\* signalColor, the lookup-table reader or observableFraction, and every
\* target pixel at distance index ii reads the arrays cached at ii.
C9_PrecomputedOnceAndReused ==
    /\ [](ObtainedOnce /\ ReadsCache)
    /\ NoProviderCallInGridSearch

\* a second target pixel of the second distance modulus is evaluated from
\* arrays that differ from those of the first distance modulus
C9_Witness ==
    /\ pc = "maximize"
    /\ ii = 1
    /\ jj = 1
    /\ Len(CallsOf("surfaceIntensity")) = 4
    /\ u_color_array.val[1] # u_color_array.val[2]
    /\ NumpyAny(u_color)

\* the cells of a result array other than [i][j] are zero
OthersZero(array, i, j) ==
    \A r \in 1..Len(array) : \A c \in 1..Len(array[r]) :
        (r # i \/ c # j) => array[r][c] = Zero

\* gridSearch was called with coords and the index of a distance modulus of
\* the grid
NarrowedCall ==
    /\ SpecificPixel(args)
    /\ args.distance_modulus_index[1] < Len(distance_modulus_array)

\* C10: gridSearch called with both coords and distance_modulus_index runs
\* the optimizer for exactly one grid point, leaves every other cell of the
\* result arrays zero and, when it returns, returns the diagnostic bundle of
\* the pair, also when coords fall in a pixel that is not among the target
\* pixels.
C10_NarrowedModeReturnsBundle ==
    (NarrowedCall /\ pc = "searched") =>
        /\ results.kind = "list"
        /\ Len(results.val) = 9
        /\ Len(CallsOf("surfaceIntensity")) = 1
        /\ OthersZero(log_likelihood_sparse_array, ii + 1, jj + 1)
        /\ OthersZero(richness_sparse_array, ii + 1, jj + 1)
        /\ OthersZero(richness_lower_sparse_array, ii + 1, jj + 1)
        /\ OthersZero(richness_upper_sparse_array, ii + 1, jj + 1)
        /\ OthersZero(richness_upper_limit_sparse_array, ii + 1, jj + 1)
        /\ OthersZero(stellar_mass_sparse_array, ii + 1, jj + 1)
        /\ OthersZero(fraction_observable_sparse_array, ii + 1, jj + 1)

\* ------------------------------------------------------------------------
\* Properties of the constructor (Spec)
\* ------------------------------------------------------------------------
\* the objects of a catalog
ObjectsOf(cat) == {cat[k] : k \in 1..Len(cat)}

\* the catalog and the pixel cut are those of the interior region
InteriorSelected ==
    /\ catalog = catalog_interior
    /\ pixel_roi_cut = pixel_interior_cut

\* the catalog and the pixel cut are those of the whole region
RoiSelected ==
    /\ catalog = catalog_roi
    /\ \A k \in 1..Len(RoiPixels) :
          pixel_roi_cut[k] = (pixel_interior_cut[k] \/ pixel_annulus_cut[k])
    /\ Len(pixel_roi_cut) = Len(RoiPixels)

\* the selection made from interior_roi as given, absent meaning false
SelectedFor(interior_roi) ==
    IF interior_roi = <<TRUE>> THEN InteriorSelected ELSE RoiSelected

\* C15: the constructor selects the catalog and the pixel cut together:
\* interior_roi true gives catalog_interior with the interior cut, false or
\* absent gives catalog_roi with the interior-or-annulus cut; and
\* catalog_interior is within catalog_roi, which is within catalog_full.
C15_CatalogAndCutSelectedTogether ==
    /\ [][pc = "new" =>
            /\ SelectedFor(config.interior_roi)'
            /\ config'.interior_roi =
                   (IF config.interior_roi = <<>> THEN <<FALSE>>
                    ELSE config.interior_roi)]_vars
    /\ [](pc # "new" =>
            /\ SelectedFor(config.interior_roi)
            /\ ObjectsOf(catalog_interior) \subseteq ObjectsOf(catalog_roi)
            /\ ObjectsOf(catalog_roi) \subseteq ObjectsOf(catalog_full))

\* an instance constructed with interior_roi true: its catalog is the
\* interior one, which has fewer objects than the catalog of the region
C15_Witness ==
    /\ pc = "constructed"
    /\ config.interior_roi = <<TRUE>>
    /\ catalog = catalog_interior
    /\ Len(catalog_interior) < Len(catalog_roi)
    /\ Len(catalog_roi) < Len(catalog_full)

\* ------------------------------------------------------------------------
\* Properties of write (Spec)
\* ------------------------------------------------------------------------
\* the result array that goes by a layer name
ArrayNamed(name) ==
    CASE name = "LOG_LIKELIHOOD" -> log_likelihood_sparse_array
      [] name = "RICHNESS" -> richness_sparse_array
      [] name = "FRACTION_OBSERVABLE" -> fraction_observable_sparse_array
      [] name = "RICHNESS_LOWER" -> richness_lower_sparse_array
      [] name = "RICHNESS_UPPER" -> richness_upper_sparse_array
      [] name = "RICHNESS_LIMIT" -> richness_upper_limit_sparse_array
      [] name = "STELLAR_MASS" -> stellar_mass_sparse_array

BasicLayers == {"LOG_LIKELIHOOD", "RICHNESS", "FRACTION_OBSERVABLE"}
FullLayers == {"RICHNESS_LOWER", "RICHNESS_UPPER", "RICHNESS_LIMIT"}

\* the parts of the exported map
MapPixels == outfile.val[1]
MapLayers == outfile.val[2]
MapHeader == outfile.val[4]

\* a layer holds its result array by [pixel][distance], or by [pixel]
\* alone when the grid has a single distance modulus
LayerIsArray(layer) ==
    LET array == ArrayNamed(layer[1])
        n == Len(distance_modulus_array)
    IN  /\ Len(layer[2]) = Len(pixels_target)
        /\ \A j \in 1..Len(pixels_target) :
              IF n = 1 THEN layer[2][j] = array[1][j]
              ELSE /\ Len(layer[2][j]) = n
                   /\ \A i \in 1..n : layer[2][j][i] = array[i][j]

\* C12: write exports a map keyed by the target pixels whose layers are
\* LOG_LIKELIHOOD, RICHNESS and FRACTION_OBSERVABLE, and with full_pdf also
\* RICHNESS_LOWER, RICHNESS_UPPER and RICHNESS_LIMIT; each layer is its
\* result array by [pixel][distance], one value per pixel exactly when the
\* grid has a single entry; the stellar mass is not a layer, the
\* conversion factor is in the header.
C12_WriteExportsLayers ==
    pc = "written" =>
        /\ MapPixels = pixels_target
        /\ {MapLayers[k][1] : k \in 1..Len(MapLayers)} =
               (IF config.full_pdf THEN BasicLayers \cup FullLayers
                ELSE BasicLayers)
        /\ \A k, l \in 1..Len(MapLayers) :
               MapLayers[k][1] = MapLayers[l][1] => k = l
        /\ \A k \in 1..Len(MapLayers) : LayerIsArray(MapLayers[k])
        /\ MapHeader[1] = "STELLAR"
        /\ LET d == FAbs(FSub(MapHeader[2], stellar_mass_conversion))
           IN  IsFin(d) /\ d.v <= Scale \div (2 * 10 ^ 8)

\* a map written without full_pdf after a full search of two distance
\* moduli that found a positive richness
C12_Witness ==
    /\ pc = "written"
    /\ ~config.full_pdf
    /\ Len(distance_modulus_array) = 2
    /\ \E j \in 1..Len(pixels_target) :
          FLt(Zero, richness_sparse_array[1][j])
    /\ Len(MapLayers) = 3

\* ------------------------------------------------------------------------
\* Properties of the order of gridSearch (Spec)
\* ------------------------------------------------------------------------
\* the grid points for which the optimizer was called, in order
Evaluated ==
    LET made == SelectSeq(calls, LAMBDA c : c[1] = "maximizeLogLikelihood")
    IN  [k \in 1..Len(made) |-> <<made[k][2], made[k][3]>>]

\* the rows whose maximum was reported, in order
Reported ==
    LET made == SelectSeq(log, LAMBDA m : m[2] = "Maximum at")
    IN  [k \in 1..Len(made) |-> made[k][3]]

\* the first n grid points in distance-major order
DistanceMajor(n) ==
    [k \in 1..n |-> <<(k - 1) \div Len(pixels_target),
                      (k - 1) % Len(pixels_target)>>]

\* a gridSearch over the whole grid is running or has ended
FullSearch ==
    /\ ~SpecificPixel(args)
    /\ \/ GridSearchStarted
       \/ pc = "raised" /\ exception = "AttributeError"

\* a gridSearch over the whole grid has ended
FullSearchEnded == FullSearch /\ pc \in {"searched", "written", "raised"}

\* number of grid points entered when the search is at (ii, jj)
Entered ==
    ii * Len(pixels_target) + (IF pc \in {"cell", "maximize", "raised"}
                               THEN jj ELSE 0)
       + (IF pc \in {"maximize", "raised"} THEN 1 ELSE 0)

\* the cells of array other than [i][j] are the same in next
SameBut(array, next, i, j) ==
    /\ Len(next) = Len(array)
    /\ \A r \in 1..Len(array) : \A c \in 1..Len(array[r]) :
          (r # i \/ c # j) => next[r][c] = array[r][c]

\* a step of a running search writes cell [ii][jj] only, and only with the
\* result of the optimizer for that grid point
WritesOwnCell ==
    [][(FullSearch /\ pc \in {"row", "cell", "maximize"}) =>
          /\ SameBut(richness_sparse_array, richness_sparse_array',
                     ii + 1, jj + 1)
          /\ SameBut(log_likelihood_sparse_array,
                     log_likelihood_sparse_array', ii + 1, jj + 1)
          /\ SameBut(stellar_mass_sparse_array, stellar_mass_sparse_array',
                     ii + 1, jj + 1)
          /\ SameBut(fraction_observable_sparse_array,
                     fraction_observable_sparse_array', ii + 1, jj + 1)
          /\ (pc = "maximize" /\ opc = "returned") =>
                 /\ richness_sparse_array'[ii + 1][jj + 1] = ret.richness
                 /\ log_likelihood_sparse_array'[ii + 1][jj + 1] =
                        ret.log_likelihood
                 /\ fraction_observable_sparse_array'[ii + 1][jj + 1] = f
          /\ ~(pc = "maximize" /\ opc = "returned") =>
                 /\ richness_sparse_array' = richness_sparse_array
                 /\ log_likelihood_sparse_array' =
                        log_likelihood_sparse_array]_vars

\* the grid points are entered in distance-major order, and the maximum of
\* a row is reported between its last pixel and the next row
InDistanceMajorOrder ==
    (FullSearch /\ pc \in {"row", "cell", "maximize", "raised"}) =>
        /\ Evaluated = DistanceMajor(Entered)
        /\ Reported = [k \in 1..ii |-> k - 1]
        /\ \A k \in 1..Len(log) :
               log[k][2] = "Maximum at" =>
                   \A j \in 1..Len(pixels_target) :
                       ~FLt(log_likelihood_sparse_array[log[k][3] + 1]
                                                       [log[k][4] + 1],
                            log_likelihood_sparse_array[log[k][3] + 1][j])

\* when the search has ended every grid point was evaluated and the
\* maximum of every row was reported
EveryPairOnce ==
    FullSearchEnded =>
        /\ Evaluated =
               DistanceMajor(Len(distance_modulus_array) * Len(pixels_target))
        /\ Reported = [k \in 1..Len(distance_modulus_array) |-> k - 1]

\* C13: a full gridSearch evaluates every (ii, jj) pair exactly once, in
\* distance-major order, writes the results of a pair only into cell
\* [ii][jj], and reports the maximum of row ii after the last pixel of row
\* ii and before the first pixel of row ii + 1.
C13_EveryPairOnceInDistanceMajorOrder ==
    /\ [](InDistanceMajorOrder /\ EveryPairOnce)
    /\ WritesOwnCell

\* C13 without the requirement that the search reaches its end
C13_OrderWhileRunning ==
    /\ [](InDistanceMajorOrder
          /\ (FullSearchEnded /\ exception = "none" => EveryPairOnce))
    /\ WritesOwnCell

\* ------------------------------------------------------------------------
\* Properties of the per-grid-point state of gridSearch (Spec)
\* ------------------------------------------------------------------------
\* kernel intensity at ROI pixel k (from 1) for the kernel on target pixel j
IntensityAt(j, k) ==
    LET separation == AbsInt(j + 1 - k)
    IN  IF separation < Len(kernel_profile) THEN kernel_profile[separation + 1]
        ELSE Zero

\* the signal weights of grid point (i, j), from the arrays cached for i
CellU(i, j) ==
    [k \in 1..Len(catalog) |->
        FMul(FMul(area_pixel, IntensityAt(j, pixel_roi_index[catalog[k]])),
             u_color_array.val[i + 1][k])]

\* the expected observable signal of grid point (i, j)
CellF(i, j) ==
    FMul(area_pixel,
         FSum([k \in 1..Len(RoiPixels) |->
                  IF pixel_roi_cut[k]
                  THEN FMul(IntensityAt(j, k),
                            observable_fraction_sparse_array.val[i + 1].val[k])
                  ELSE Zero]))

\* C14: whenever the optimizer runs for grid cell (ii, jj) the fields it
\* reads (u, f, the kernel position) are those computed from the arrays
\* cached for distance ii and the separations of pixel jj, whatever cells
\* were evaluated before; its seeds are computed from them.
C14_CellStateIsOfItsOwnCell ==
    pc = "maximize" =>
        /\ u = CellU(ii, jj)
        /\ f = CellF(ii, jj)
        /\ kernel.lon = centers_lon_target[jj + 1]
        /\ kernel.lat = centers_lat_target[jj + 1]
        /\ opc = "loop" =>
               /\ opt.richness[2] = FDiv(One, CellF(ii, jj))
               /\ opt.log_likelihood[2] =
                      logLikelihoodSimple(opt.richness[2], CellU(ii, jj), b,
                                          CellF(ii, jj))

\* the optimizer runs for the second pixel of the second distance modulus
\* of a full search, after three other cells with other signal weights
C14_Witness ==
    /\ pc = "maximize"
    /\ opc = "loop"
    /\ ~SpecificPixel(args)
    /\ ii = 1
    /\ jj = 1
    /\ u # CellU(0, 1)
    /\ u # CellU(1, 0)
    /\ f # CellF(0, 1)

\* ------------------------------------------------------------------------
\* Properties of the result of maximizeLogLikelihood (SpecOpt)
\* ------------------------------------------------------------------------
\* maximizeLogLikelihood has returned from its optimizer loop
OptimizerReturned == opc = "returned" /\ ret.parabola # None

\* C17: the (log-likelihood, richness) pair returned by the optimizer is
\* the sample with the greatest log-likelihood among all samples, the seed
\* (0, 0) included, and the returned p is the membership at that richness;
\* so the returned log-likelihood, which gridSearch stores, is >= 0.
C17_ReturnsGreatestSample ==
    OptimizerReturned =>
        /\ \E i \in 1..Len(opt.log_likelihood) :
               /\ ret.log_likelihood = opt.log_likelihood[i]
               /\ ret.richness = opt.richness[i]
        /\ \A i \in 1..Len(opt.log_likelihood) :
               /\ ~IsNaN(opt.log_likelihood[i])
               /\ ~FLt(ret.log_likelihood, opt.log_likelihood[i])
        /\ opt.richness[1] = Zero /\ opt.log_likelihood[1] = Zero
        /\ ~IsNaN(ret.log_likelihood) /\ ~FLt(ret.log_likelihood, Zero)
        /\ ret.p = Membership(ret.richness, u, b)

\* the optimizer returned a sample that is neither the seed at richness 0
\* nor the last one evaluated
C17_Witness ==
    /\ OptimizerReturned
    /\ FLt(Zero, ret.log_likelihood)
    /\ ret.log_likelihood # opt.log_likelihood[Len(opt.log_likelihood)]
    /\ Len(opt.log_likelihood) > 4

\* the optimizer is running or has run: its samples exist
OptimizerRun == opc \in {"loop", "returned"} /\ opt # NoOpt

PScale == 100000000

\* x * y of two probabilities, rounded to the nearest unit
PMul(x, y) == SignInt(x) * SignInt(y) * MulDiv(AbsInt(x), AbsInt(y), PScale)

RECURSIVE SumSeq(_)
SumSeq(s) == IF s = <<>> THEN 0 ELSE s[1] + SumSeq(Tail(s))

MinOf(s) == CHOOSE x \in {s[i] : i \in 1..Len(s)} :
                \A i \in 1..Len(s) : x <= s[i]
MaxOf(s) == CHOOSE x \in {s[i] : i \in 1..Len(s)} :
                \A i \in 1..Len(s) : x >= s[i]

\* scipy.stats.norm.cdf at 0, 0.5, ..., 6 sigma
CdfTable == <<50000000, 69146246, 84134475, 93319280, 97724987, 99379033,
              99865010, 99976737, 99996833, 99999660, 99999971, 99999998,
              100000000>>
HalfSigma == Scale \div 2

\* scipy.stats.norm.cdf of a float: the table, interpolated linearly
\* between its knots, symmetric about 0, 0 and 1 beyond 6 sigma
NormCdf(a) ==
    IF IsNaN(a) THEN 0
    ELSE IF IsInf(a) THEN (IF a.v > 0 THEN PScale ELSE 0)
    ELSE LET x == AbsInt(a.v)
             k == x \div HalfSigma
             upper == IF k >= Len(CdfTable) - 1 THEN PScale
                      ELSE CdfTable[k + 1]
                           + MulDiv(CdfTable[k + 2] - CdfTable[k + 1],
                                    x % HalfSigma, HalfSigma)
         IN  IF a.v >= 0 THEN upper ELSE PScale - upper

\* numpy.arange(start, stop, step)
Arange(start, stop, step) ==
    [k \in 1..((stop - start + step - 1) \div step) |->
        start + (k - 1) * step]

\* bin edges of one band: from half a bin below the brightest sample
bins_mag(distance_modulus, mags) ==
    Arange(distance_modulus + MinOf(mags) - delta_mag.v \div 2,
           distance_modulus + MaxOf(mags) + delta_mag.v \div 2,
           delta_mag.v)

\* x falls into bin i of edges: half-open, the last bin closed
InBin(x, edges, i) ==
    /\ edges[i] <= x
    /\ \/ x < edges[i + 1]
       \/ i = Len(edges) - 1 /\ x = edges[i + 1]

\* numpy.histogram2d(x, y, bins=[edges_1, edges_2], weights=w)[0]
histogram2d(x, y, edges_1, edges_2, w) ==
    [i \in 1..(Len(edges_1) - 1) |->
        [j \in 1..(Len(edges_2) - 1) |->
            SumSeq([n \in 1..Len(w) |->
                       IF InBin(x[n], edges_1, i) /\ InBin(y[n], edges_2, j)
                       THEN w[n] ELSE 0])]]

\* buffer = 1. mag
buffer == Scale

\* in_color_magnitude_space[i][j]: numpy.meshgrid(bins_mag_2[1:],
\* bins_mag_1[1:]) puts the band-2 edges into mag_1_mesh and the band-1
\* edges into mag_2_mesh
in_color_magnitude_space(in, edges_1, edges_2, i, j) ==
    LET mag_1_mesh == edges_2[j + 1]
        mag_2_mesh == edges_1[i + 1]
    IN  IF in.band_1_detection
        THEN /\ mag_1_mesh < in.mag_1_clip + buffer
             /\ mag_2_mesh > in.bins_mag_0 - buffer
        ELSE /\ mag_2_mesh < in.mag_2_clip + buffer
             /\ mag_2_mesh > in.bins_mag_0 - buffer

\* numpy.nonzero of a matrix: the indices <<i, j>> in row-major order
NonzeroCells(h) ==
    LET rows == Len(h)
        cols == IF rows = 0 THEN 0 ELSE Len(h[1])
        all == [n \in 1..(rows * cols) |->
                   <<((n - 1) \div cols) + 1, ((n - 1) % cols) + 1>>]
    IN  SelectSeq(all, LAMBDA c : h[c[1]][c[2]] # 0)

\* (mag - edge) / mag_err
StdArg(mag, edge, mag_err) == FDiv(Fin(mag - edge), Fin(mag_err))

FiveSigma == Fin(5 * Scale)

WithinFiveSigmaMutant(hi_1, lo_1, hi_2, lo_2) ==
    /\ FLt(lo_1, FiveSigma)
    /\ FLt(FNeg(FiveSigma), hi_2) /\ FLt(lo_2, FiveSigma)

\* (arg_mag_1_hi > -5.) * (arg_mag_1_lo < 5.) * (arg_mag_2_hi > -5.)
\* * (arg_mag_2_lo < 5.)
WithinFiveSigma(hi_1, lo_1, hi_2, lo_2) ==
    /\ FLt(FNeg(FiveSigma), hi_1) /\ FLt(lo_1, FiveSigma)
    /\ FLt(FNeg(FiveSigma), hi_2) /\ FLt(lo_2, FiveSigma)

\* pdf_mag_1 and pdf_mag_2 of object o and retained cell c = <<i, j>>
PairPdf(o, c, edges_1, edges_2) ==
    LET hi_1 == StdArg(o.mag_1, edges_1[c[1]], o.mag_err_1)
        lo_1 == StdArg(o.mag_1, edges_1[c[1] + 1], o.mag_err_1)
        hi_2 == StdArg(o.mag_2, edges_2[c[2]], o.mag_err_2)
        lo_2 == StdArg(o.mag_2, edges_2[c[2] + 1], o.mag_err_2)
    IN  IF WithinFiveSigma(hi_1, lo_1, hi_2, lo_2)
        THEN <<NormCdf(hi_1) - NormCdf(lo_1), NormCdf(hi_2) - NormCdf(lo_2)>>
        ELSE <<0, 0>>

\* pdf_mag_1 * pdf_mag_2 * isochrone_pdf of one object-cell pair
Contribution(pdf_1, pdf_2, isochrone_pdf) ==
    PMul(PMul(pdf_1, pdf_2), isochrone_pdf)

\* inputs of signalColor: the distance modulus, the sampled isochrone, the
\* photometry of the catalog and the clipping limits of mask and ROI
ColorDM == FirstDM * Scale
IsoSamples ==
    {<<[mag_1 |-> 0, mag_2 |-> 0, mass_pdf |-> w1],
       [mag_1 |-> m1, mag_2 |-> m2, mass_pdf |-> w2]>> :
        w1 \in {0, PScale \div 4}, w2 \in {PScale \div 4, PScale \div 2},
        m1 \in {3000, 4000}, m2 \in {4000, 5100}}
Photometry ==
    [mag_1 : {ColorDM + 1000, ColorDM - 6600},
     mag_2 : {ColorDM + 1000, ColorDM + 4000},
     mag_err_1 : {1000, 10000},
     mag_err_2 : {1000}]
ColorInputs ==
    [distance_modulus : {ColorDM},
     sample : IsoSamples,
     objects : [Objects -> Photometry],
     band_1_detection : BOOLEAN,
     mag_1_clip : {ColorDM + 3000 - buffer, ColorDM + 10 * Scale},
     mag_2_clip : {ColorDM + 3000 - buffer},
     bins_mag_0 : {ColorDM - 5 * Scale}]

InitColor ==
    /\ InitCommon
    /\ pc = "signalColor"
    /\ opc = "none"
    /\ config = [full_pdf |-> FALSE, color_lut_infile |-> FALSE,
                 interior_roi |-> <<FALSE>>]
    /\ catalog = catalog_roi
    /\ pixel_roi_cut = InteriorOrAnnulus
    /\ cmd_table = [c \in Catalogs |-> FieldDensity]
    /\ calls_left = 0
    /\ lut_table = [d \in DMValues |-> NdArray(<<>>)]
    /\ signal_table = [d \in DMValues |-> [i \in Objects |-> Zero]]
    /\ kernel_profile = <<One, Zero, Zero>>
    /\ u = <<>>
    /\ b = <<>>
    /\ f = Zero
    /\ padova = NoPadova
    /\ \E in \in ColorInputs : sc = [in |-> in]

colorFrame == <<exception, envVars, richness_error_sparse_array, gs2,
                calls_left, history, padova, calls, log, preVars, loopVars,
                u, f, optVars, arrayVars, results, outfile>>

\* lines 138-149: sample the isochrone and bin it
SignalColorBin ==
    /\ pc = "signalColor"
    /\ LET in == sc.in
           n == Len(in.sample)
           mag_1 == [i \in 1..n |-> in.sample[i].mag_1]
           mag_2 == [i \in 1..n |-> in.sample[i].mag_2]
           edges_1 == bins_mag(in.distance_modulus, mag_1)
           edges_2 == bins_mag(in.distance_modulus, mag_2)
       IN  sc' = [in |-> in,
                  bins_mag_1 |-> edges_1,
                  bins_mag_2 |-> edges_2,
                  histo_isochrone_pdf |->
                      histogram2d(
                          [i \in 1..n |-> in.distance_modulus + mag_1[i]],
                          [i \in 1..n |-> in.distance_modulus + mag_2[i]],
                          edges_1, edges_2,
                          [i \in 1..n |-> in.sample[i].mass_pdf])]
    /\ pc' = "color_binned"
    /\ UNCHANGED colorFrame

\* lines 151-162: keep the bins inside the colour-magnitude space
SignalColorClip ==
    /\ pc = "color_binned"
    /\ LET h == [i \in 1..Len(sc.histo_isochrone_pdf) |->
                    [j \in 1..Len(sc.histo_isochrone_pdf[i]) |->
                        IF in_color_magnitude_space(sc.in, sc.bins_mag_1,
                                                    sc.bins_mag_2, i, j)
                        THEN sc.histo_isochrone_pdf[i][j] ELSE 0]]
           index == NonzeroCells(h)
       IN  sc' = [in |-> sc.in,
                  bins_mag_1 |-> sc.bins_mag_1,
                  bins_mag_2 |-> sc.bins_mag_2,
                  histo_isochrone_pdf |-> h,
                  index_mag |-> index,
                  isochrone_pdf |->
                      [c \in 1..Len(index) |-> h[index[c][1]][index[c][2]]]]
    /\ pc' = "color_clipped"
    /\ UNCHANGED colorFrame

\* lines 164-196: the probability of every object-bin pair
SignalColorPairs ==
    /\ pc = "color_clipped"
    /\ LET pair == [o \in Objects |->
                       [c \in 1..Len(sc.index_mag) |->
                           PairPdf(sc.in.objects[o], sc.index_mag[c],
                                   sc.bins_mag_1, sc.bins_mag_2)]]
       IN  sc' = [in |-> sc.in,
                  bins_mag_1 |-> sc.bins_mag_1,
                  bins_mag_2 |-> sc.bins_mag_2,
                  histo_isochrone_pdf |-> sc.histo_isochrone_pdf,
                  index_mag |-> sc.index_mag,
                  isochrone_pdf |-> sc.isochrone_pdf,
                  pdf_mag_1 |-> [o \in Objects |->
                                    [c \in 1..Len(sc.index_mag) |->
                                        pair[o][c][1]]],
                  pdf_mag_2 |-> [o \in Objects |->
                                    [c \in 1..Len(sc.index_mag) |->
                                        pair[o][c][2]]]]
    /\ pc' = "color_pairs"
    /\ UNCHANGED colorFrame

\* lines 198-200: sum over the isochrone bins and return
SignalColorReturn ==
    /\ pc = "color_pairs"
    /\ sc' = [in |-> sc.in,
              bins_mag_1 |-> sc.bins_mag_1,
              bins_mag_2 |-> sc.bins_mag_2,
              histo_isochrone_pdf |-> sc.histo_isochrone_pdf,
              index_mag |-> sc.index_mag,
              isochrone_pdf |-> sc.isochrone_pdf,
              pdf_mag_1 |-> sc.pdf_mag_1,
              pdf_mag_2 |-> sc.pdf_mag_2,
              u_color |->
                  [o \in Objects |->
                      SumSeq([c \in 1..Len(sc.index_mag) |->
                                 Contribution(sc.pdf_mag_1[o][c],
                                              sc.pdf_mag_2[o][c],
                                              sc.isochrone_pdf[c])])]]
    /\ pc' = "color_returned"
    /\ UNCHANGED colorFrame

NextColor ==
    \/ SignalColorBin
    \/ SignalColorClip
    \/ SignalColorPairs
    \/ SignalColorReturn

SpecColor == InitColor /\ [][NextColor]_vars

\* distance of a magnitude to the bin [lower, upper], 0 inside it
DistanceToCell(mag, lower, upper) ==
    IF mag < lower THEN lower - mag
    ELSE IF mag > upper THEN mag - upper
    ELSE 0

\* in one of the bands object o is more than 5 sigma away from cell c
ExceedsFiveSigma(o, c) ==
    LET obj == sc.in.objects[o]
        cell == sc.index_mag[c]
    IN  \/ DistanceToCell(obj.mag_1, sc.bins_mag_1[cell[1]],
                          sc.bins_mag_1[cell[1] + 1]) > 5 * obj.mag_err_1
        \/ DistanceToCell(obj.mag_2, sc.bins_mag_2[cell[2]],
                          sc.bins_mag_2[cell[2] + 1]) > 5 * obj.mag_err_2

\* C16: for every catalog object the value returned by signalColor is
\* >= 0 and at most the total isochrone mass of the cells retained after
\* clipping, and a pair of an object and a cell more than 5 sigma apart in
\* either band contributes exactly zero to it.
C16_ColorProbabilityBounded ==
    pc = "color_returned" =>
        \A o \in Objects :
            /\ sc.u_color[o] >= 0
            /\ sc.u_color[o] <= SumSeq(sc.isochrone_pdf)
            /\ \A c \in 1..Len(sc.index_mag) :
                   ExceedsFiveSigma(o, c) =>
                       Contribution(sc.pdf_mag_1[o][c], sc.pdf_mag_2[o][c],
                                    sc.isochrone_pdf[c]) = 0

\* a call returned a positive probability for one object while another
\* object is more than 5 sigma away from a retained cell, and clipping
\* removed a cell of the isochrone
C16_Witness ==
    /\ pc = "color_returned"
    /\ \E o \in Objects : sc.u_color[o] > 0
    /\ \E o \in Objects : \E c \in 1..Len(sc.index_mag) :
           ExceedsFiveSigma(o, c)
    /\ SumSeq(sc.isochrone_pdf) <
           SumSeq([n \in 1..Len(sc.in.sample) |-> sc.in.sample[n].mass_pdf])

\* ------------------------------------------------------------------------
\* Padova.run and Padova.download
\* ------------------------------------------------------------------------
\* number of (age, metallicity) pairs of a grid
MaxGrid == 2

\* numpy.log10 of a float
FLog10(a) ==
    LET l == FLog(a)
    IN  IF IsFin(l) THEN FDiv(l, Fin(LnFix(10 * Scale))) ELSE l

\* lage = np.log10(age*1e9), computed as 9 + log10(age) for age in Gyr
lage(age) == FAdd(Fin(9 * Scale), FLog10(age))

\* defaults_27
isoc_lage0 == Fin(MulDiv(6602, Scale, 1000))
isoc_lage1 == Fin(MulDiv(101303, Scale, 10000))
isoc_z0 == Fin(Scale \div 10000)
isoc_z1 == Fin((3 * Scale) \div 100)
epsilon == Fin(Scale \div 10000)

\* lage_min-epsilon < lage < lage_max+epsilon
AgeInRange(age) ==
    /\ FLt(FSub(isoc_lage0, epsilon), lage(age))
    /\ FLt(lage(age), FAdd(isoc_lage1, epsilon))

\* z_min <= metallicity <= z_max
MetallicityInRange(z) ==
    /\ ~IsNaN(z)
    /\ ~FLt(z, isoc_z0)
    /\ ~FLt(isoc_z1, z)

\* self.survey.lower()
Lower(survey) ==
    CASE survey = "DES" -> "des"
      [] survey = "SDSS" -> "sdss"
      [] OTHER -> survey

SurveyKnown(survey) == Lower(survey) \in {"des", "sdss"}

\* os.path.join(outdir, self.params2filename(age, metallicity))
OutfileOf(age, z) == <<"iso", age.v, z.v>>

\* zip(aa, zz)
Zip(aa, zz) ==
    [k \in 1..(IF Len(aa) < Len(zz) THEN Len(aa) ELSE Len(zz)) |->
        <<aa[k], zz[k]>>]

\* the pairs a grid is made of: a valid one, one too young, one too old,
\* one below and one above the metallicity range
GoodPair == <<One, Fin((2 * Scale) \div 100)>>
GridPairs ==
    {GoodPair,
     <<Fin(Scale \div 1000), Fin((2 * Scale) \div 100)>>,
     <<Fin(14 * Scale), Fin((2 * Scale) \div 100)>>,
     <<One, Fin(Scale \div 20000)>>,
     <<One, Fin((4 * Scale) \div 100)>>}
Grids ==
    {<<[k \in 1..MaxGrid |-> g[k][1]], [k \in 1..MaxGrid |-> g[k][2]]>> :
        g \in [1..MaxGrid -> GridPairs]}

\* the page the server answers with, or the failure of urlopen
Responses == {"output", "no output", "URLError"}
\* the exit status of the wget command
ExitStatus == {0, 1}

\* the arguments of run (grid is a sequence, empty for None), the survey
\* of the instance and the files already in outdir
PadovaInputs ==
    [grid : {<<>>} \cup {<<g>> : g \in Grids},
     survey : {"des", "SDSS", "lsst"},
     force : BOOLEAN,
     files : {{}, {OutfileOf(GoodPair[1], GoodPair[2])}}]

InitPadova ==
    /\ InitCommon
    /\ pc = "run"
    /\ opc = "none"
    /\ config = [full_pdf |-> FALSE, color_lut_infile |-> FALSE,
                 interior_roi |-> <<FALSE>>]
    /\ catalog = catalog_roi
    /\ pixel_roi_cut = InteriorOrAnnulus
    /\ cmd_table = [c \in Catalogs |-> FieldDensity]
    /\ calls_left = 0
    /\ lut_table = [d \in DMValues |-> NdArray(<<>>)]
    /\ signal_table = [d \in DMValues |-> [i \in Objects |-> Zero]]
    /\ kernel_profile = <<One, Zero, Zero>>
    /\ u = <<>>
    /\ b = <<>>
    /\ f = Zero
    /\ sc = NoColor
    /\ \E in \in PadovaInputs :
           padova = [in |-> in, pairs |-> <<>>, k |-> 0, files |-> in.files,
                     attempts |-> <<>>]

padovaFrame == <<envVars, richness_error_sparse_array, gs2, calls_left,
                 history, sc, calls, preVars, loopVars, u, f, optVars,
                 arrayVars, results, outfile>>

\* lines 64-67: the grid of run
PadovaRun ==
    /\ pc = "run"
    /\ IF padova.in.grid = <<>>
       THEN \* self.create_grid() lacks its two arguments
            /\ pc' = "raised"
            /\ exception' = "TypeError"
            /\ UNCHANGED padova
       ELSE /\ pc' = "loop"
            /\ padova' = [padova EXCEPT
                   !.pairs = Zip(padova.in.grid[1][1], padova.in.grid[1][2]),
                   !.k = 1]
            /\ UNCHANGED exception
    /\ UNCHANGED <<log, padovaFrame>>

\* what download(age, z, outdir, force) does, given the answer of the
\* server and the exit status of wget: the accesses it makes in order, the
\* exception it raises ("none" when it returns) and the files afterwards
download(age, z, survey, force, files, response, status) ==
    IF ~AgeInRange(age)
    THEN [accesses |-> <<>>, raises |-> "RuntimeError",
          msg |-> "Age outside of valid range", files |-> files]
    ELSE IF ~MetallicityInRange(z)
    THEN [accesses |-> <<>>, raises |-> "RuntimeError",
          msg |-> "Metallicity outside of valid range", files |-> files]
    ELSE IF ~SurveyKnown(survey)
    THEN [accesses |-> <<>>, raises |-> "RuntimeError",
          msg |-> "Unrecognized survey", files |-> files]
    ELSE IF OutfileOf(age, z) \in files /\ ~force
    THEN [accesses |-> <<"mkdir", "exists">>, raises |-> "none",
          msg |-> "Found; skipping", files |-> files]
    ELSE IF response = "URLError"
    THEN [accesses |-> <<"mkdir", "exists", "urlopen">>,
          raises |-> "URLError", msg |-> "", files |-> files]
    ELSE IF response = "no output"
    THEN [accesses |-> <<"mkdir", "exists", "urlopen">>,
          raises |-> "RuntimeError",
          msg |-> "Server Response is incorrect", files |-> files]
    ELSE IF status # 0
    THEN [accesses |-> <<"mkdir", "exists", "urlopen", "wget">>,
          raises |-> "CalledProcessError", msg |-> "", files |-> files]
    ELSE [accesses |-> <<"mkdir", "exists", "urlopen", "wget">>,
          raises |-> "none", msg |-> "",
          files |-> files \cup {OutfileOf(age, z)}]

\* except RuntimeError, msg
Handled(e) == e = "RuntimeError"

\* lines 68-72: one pass of the loop of run
PadovaDownload ==
    /\ pc = "loop"
    /\ padova.k <= Len(padova.pairs)
    /\ \E response \in Responses, status \in ExitStatus :
        LET pair == padova.pairs[padova.k]
            d == download(pair[1], pair[2], padova.in.survey,
                          padova.in.force, padova.files, response, status)
        IN  /\ padova' = [padova EXCEPT
                   !.attempts = Append(@, [pair |-> pair,
                                           accesses |-> d.accesses,
                                           raises |-> d.raises]),
                   !.files = d.files,
                   !.k = IF d.raises = "none" \/ Handled(d.raises)
                         THEN @ + 1 ELSE @]
            /\ IF d.raises = "none"
               THEN /\ log' = IF d.msg = "" THEN log
                              ELSE Append(log, <<"warning", d.msg>>)
                    /\ UNCHANGED <<pc, exception>>
               ELSE IF Handled(d.raises)
               THEN /\ log' = Append(log, <<"warning", d.msg>>)
                    /\ UNCHANGED <<pc, exception>>
               ELSE /\ pc' = "raised"
                    /\ exception' = d.raises
                    /\ UNCHANGED log
    /\ UNCHANGED padovaFrame

\* the loop of run is exhausted
PadovaReturn ==
    /\ pc = "loop"
    /\ padova.k > Len(padova.pairs)
    /\ pc' = "returned"
    /\ UNCHANGED <<exception, padova, log, padovaFrame>>

NextPadova ==
    \/ PadovaRun
    \/ PadovaDownload
    \/ PadovaReturn

SpecPadova == InitPadova /\ [][NextPadova]_vars

\* run has ended, by returning or by an exception, after it got its grid
RunEnded == pc \in {"returned", "raised"} /\ padova.in.grid # <<>>

\* the failures of a pair that the run is said to survive
SurvivableFailure(e) == e \in {"RuntimeError", "CalledProcessError"}

\* C20: when no failure other than a rejected pair, an unrecognized
\* survey, a bad server response or a failed fetch command happens, run
\* attempts every pair of the grid in order and returns; a pair out of
\* range is rejected before any directory, file or network access; an
\* existing output file is not fetched again unless force is set.
C20_EveryPairAttempted ==
    (RunEnded /\ \A n \in 1..Len(padova.attempts) :
                    padova.attempts[n].raises = "none"
                    \/ SurvivableFailure(padova.attempts[n].raises)) =>
        /\ pc = "returned"
        /\ Len(padova.attempts) = Len(padova.pairs)
        /\ \A n \in 1..Len(padova.attempts) :
               LET a == padova.attempts[n]
               IN  /\ a.pair = padova.pairs[n]
                   /\ (~AgeInRange(a.pair[1])
                       \/ ~MetallicityInRange(a.pair[2])) =>
                          a.accesses = <<>>
                   /\ (OutfileOf(a.pair[1], a.pair[2]) \in padova.in.files
                       /\ ~padova.in.force /\ a.raises = "none") =>
                          a.accesses = <<"mkdir", "exists">>

\* ------------------------------------------------------------------------
\* Several grid-search routines called one after another on one instance
\* ------------------------------------------------------------------------
\* number of routine calls followed on one instance
MaxCalls == 3

\* numpy.sqrt of a float: the root of a fixed-point value by bisection
RECURSIVE SqrtAbove(_, _)
SqrtAbove(v, h) ==
    IF MulDivRec(h, h, Scale)[1] > v THEN h ELSE SqrtAbove(v, 2 * h)

RECURSIVE SqrtBetween(_, _, _)
SqrtBetween(v, lo, hi) ==
    IF hi - lo <= 1 THEN lo
    ELSE LET mid == (lo + hi) \div 2
         IN  IF MulDivRec(mid, mid, Scale)[1] > v
             THEN SqrtBetween(v, lo, mid)
             ELSE SqrtBetween(v, mid, hi)

FSqrt(a) ==
    IF IsNaN(a) THEN NaN
    ELSE IF IsInf(a) THEN (IF a.v > 0 THEN PosInf ELSE NaN)
    ELSE IF a.v < 0 THEN NaN
    ELSE Fin(SqrtBetween(a.v, 0, SqrtAbove(a.v, Scale)))

\* self.b as computed from a background CMD (lines 97-100 and 254-258)
BackgroundWeights(cmd_background) ==
    [k \in 1..Len(catalog) |->
        FMul(FMul(b_density(cmd_background)[k], area_pixel),
             FMul(delta_mag, delta_mag))]

\* logLikelihood(distance_modulus, richness, grid_search=True) with the
\* kernel at target pixel j: <<log_likelihood, p, f>> as a record
logLikelihood(richness, j, color, fraction, bb) ==
    LET intensity == surfaceIntensity(angsep(j))
        uu == [k \in 1..Len(catalog) |->
                  FMul(FMul(area_pixel,
                            intensity[pixel_roi_index[catalog[k]]]),
                       color[k])]
        ff == FSum([k \in 1..Len(RoiPixels) |->
                       FMul(FMul(area_pixel, intensity[k]), fraction[k])])
    IN  [log_likelihood |-> logLikelihoodSimple(richness, uu, bb, ff),
         p |-> Membership(richness, uu, bb),
         f |-> ff]

\* tolerance=1.e-2 of gridSearch2
tolerance2 == Fin(Scale \div 100)

\* the arguments the routines are called with here: all of the grid, or
\* the last target pixel at the first distance modulus
CallArgs ==
    {NoArgs, [coords |-> <<pixels_target[Len(pixels_target)]>>,
              distance_modulus_index |-> <<0>>]}
CallGrids == {<<FirstDM>>}

InitCalls ==
    /\ InitCommon
    /\ InitIdle
    /\ pc = "new"
    /\ opc = "none"
    /\ config \in [full_pdf : {FALSE}, color_lut_infile : {FALSE},
                   interior_roi : {<<FALSE>>, <<TRUE>>}]
    /\ catalog = <<>>
    /\ pixel_roi_cut = <<>>
    /\ cmd_table \in CmdTables
    /\ calls_left = MaxCalls
    /\ lut_table = [d \in DMValues |-> NdArray(<<>>)]
    /\ signal_table = [d \in DMValues |-> [i \in Objects |-> One]]
    /\ kernel_profile = <<One, Half, Zero>>
    /\ u = <<>>
    /\ b = <<>>
    /\ f = Zero

\* precomputeGridSearch(distance_modulus_array) for one of the grids
PrecomputeGrid ==
    /\ PrecomputeBegin
    /\ distance_modulus_array' \in CallGrids

\* gridSearch(coords, distance_modulus_index), one more call
GridSearchCall ==
    /\ calls_left > 0
    /\ GridSearchBegin
    /\ args' \in CallArgs

\* gridSearch2 up to its loop over the distance moduli
GridSearch2Begin ==
    /\ pc = "ready"
    /\ calls_left > 0
    /\ \E a \in CallArgs : args' = a
    /\ log_likelihood_sparse_array' = ZeroArrays(Len(distance_modulus_array))
    /\ richness_sparse_array' = ZeroArrays(Len(distance_modulus_array))
    /\ richness_error_sparse_array' =
           ZeroArrays(Len(distance_modulus_array))
    /\ richness_upper_limit_sparse_array' =
           ZeroArrays(Len(distance_modulus_array))
    /\ ii' = 0
    /\ pc' = "row2"
    /\ UNCHANGED <<exception, envVars, gs2, calls_left, history, auxVars,
                   calls, log, preVars, jj, u_color,
                   observable_fraction_sparse, kernel, u, f, optVars,
                   richness_lower_sparse_array, richness_upper_sparse_array,
                   stellar_mass_sparse_array,
                   fraction_observable_sparse_array, results, outfile>>

\* head of the loop of gridSearch2 over the distance moduli
GridRow2 ==
    /\ pc = "row2"
    /\ IF ii = Len(distance_modulus_array)
       THEN /\ results' = PyNone
            /\ pc' = "searched2"
            /\ UNCHANGED <<ii, jj, u_color, observable_fraction_sparse>>
       ELSE IF SpecificPixel(args) /\ ii # args.distance_modulus_index[1]
       THEN /\ ii' = ii + 1
            /\ UNCHANGED <<pc, jj, u_color, observable_fraction_sparse,
                           results>>
       ELSE /\ u_color' = PrecomputedAt(u_color_array, ii)
            /\ observable_fraction_sparse' =
                   PrecomputedAt(observable_fraction_sparse_array, ii).val
            /\ jj' = 0
            /\ pc' = "cell2"
            /\ UNCHANGED <<ii, results>>
    /\ UNCHANGED <<exception, envVars, callVars, calls, log, preVars, args,
                   kernel, u, f, optVars, arrayVars, outfile>>

\* head of the loop of gridSearch2 over the target pixels, up to the
\* iterative procedure: self.b is computed again, from self.catalog
GridCell2Enter ==
    /\ pc = "cell2"
    /\ jj < Len(pixels_target)
    /\ IF SpecificPixel(args) /\ pixels_target[jj + 1] # args.coords[1]
       THEN /\ jj' = jj + 1
            /\ UNCHANGED <<pc, kernel, b, gs2, calls>>
       ELSE LET intensity == surfaceIntensity(angsep(jj))
                f0 == FSum([k \in 1..Len(RoiPixels) |->
                               FMul(FMul(area_pixel, intensity[k]),
                                    observable_fraction_sparse[k])])
                r0 == FDiv(One, f0)
                bb == BackgroundWeights(backgroundCMD(catalog))
                first == logLikelihood(r0, jj, u_color,
                                       observable_fraction_sparse, bb)
            IN  /\ kernel' = [lon |-> centers_lon_target[jj + 1],
                              lat |-> centers_lat_target[jj + 1]]
                /\ calls' = calls \o <<(<<"surfaceIntensity", jj>>),
                                       <<"backgroundCMD">>>>
                /\ b' = bb
                /\ gs2' = [richness |-> <<r0>>,
                           log_likelihood |-> <<first.log_likelihood>>,
                           p |-> first.p,
                           f |-> f0]
                /\ pc' = "iterate2"
                /\ UNCHANGED jj
    /\ UNCHANGED <<exception, envVars, richness_error_sparse_array,
                   calls_left, history, auxVars, log,
                   distance_modulus_array, u_color_array,
                   observable_fraction_sparse_array, args, ii, u_color,
                   observable_fraction_sparse, u, f, optVars, arrayVars,
                   results, outfile>>

\* one pass of the while True loop of gridSearch2; raw_input reads a line
\* from standard input or finds it closed
GridCell2Iterate ==
    /\ pc = "iterate2"
    /\ Len(gs2.richness) <= MaxIteration
    /\ LET r == FDiv(FSum(gs2.p), gs2.f)
           l == logLikelihood(r, jj, u_color, observable_fraction_sparse, b)
       IN  /\ gs2' = [richness |-> Append(gs2.richness, r),
                      log_likelihood |->
                          Append(gs2.log_likelihood, l.log_likelihood),
                      p |-> l.p,
                      f |-> l.f]
           /\ \E stdin \in {"line", "closed"} :
                  IF stdin = "closed"
                  THEN /\ exception' = "EOFError"
                       /\ pc' = "raised"
                  ELSE /\ pc' = IF FLt(FAbs(FSub(l.log_likelihood,
                                        NumpyMax(gs2.log_likelihood))),
                                       tolerance2)
                                THEN "store2" ELSE "iterate2"
                       /\ UNCHANGED exception
    /\ UNCHANGED <<envVars, richness_error_sparse_array, calls_left, history,
                   auxVars, calls, log, preVars, loopVars, u, f, optVars,
                   arrayVars, results, outfile>>

\* from the end of the iterative procedure to the end of the loop body
GridCell2Store ==
    /\ pc = "store2"
    /\ LET n == Len(gs2.richness)
           richness_error ==
               FDiv(FSqrt(FSum([k \in 1..Len(gs2.p) |->
                                   FMul(gs2.p[k], FSub(One, gs2.p[k]))])),
                    gs2.f)
       IN  /\ richness_sparse_array' =
                  [richness_sparse_array EXCEPT
                      ![ii + 1][jj + 1] = gs2.richness[n]]
           /\ richness_error_sparse_array' =
                  [richness_error_sparse_array EXCEPT
                      ![ii + 1][jj + 1] = richness_error]
           /\ log_likelihood_sparse_array' =
                  [log_likelihood_sparse_array EXCEPT
                      ![ii + 1][jj + 1] = gs2.log_likelihood[n]]
           /\ richness_upper_limit_sparse_array' =
                  [richness_upper_limit_sparse_array EXCEPT
                      ![ii + 1][jj + 1] = External("healpy.UNSEEN")]
           /\ IF SpecificPixel(args)
              THEN /\ results' =
                          PyList(<<gs2.richness[n], gs2.log_likelihood[n],
                                   richness_error, gs2.richness,
                                   gs2.log_likelihood, gs2.p, gs2.f>>)
                   /\ pc' = "searched2"
                   /\ UNCHANGED jj
              ELSE /\ jj' = jj + 1
                   /\ pc' = "cell2"
                   /\ UNCHANGED results
    /\ UNCHANGED <<exception, envVars, gs2, calls_left, history, auxVars,
                   calls, log, preVars, args, ii, u_color,
                   observable_fraction_sparse, kernel, u, f, optVars,
                   richness_lower_sparse_array, richness_upper_sparse_array,
                   stellar_mass_sparse_array,
                   fraction_observable_sparse_array, outfile>>

\* after the loop of gridSearch2 over the target pixels
GridRow2End ==
    /\ pc = "cell2"
    /\ jj = Len(pixels_target)
    /\ ii' = ii + 1
    /\ pc' = "row2"
    /\ UNCHANGED <<exception, envVars, callVars, calls, log, preVars, args,
                   jj, u_color, observable_fraction_sparse, kernel, u, f,
                   optVars, arrayVars, results, outfile>>

\* numpy.unravel_index(numpy.argmax(a), a.shape), indices from 0
UnravelArgMax(a) ==
    LET cols == Len(a[1])
        flat == [n \in 1..(Len(a) * cols) |->
                    a[((n - 1) \div cols) + 1][((n - 1) % cols) + 1]]
        n == ArgMax(flat) - 1
    IN  <<n \div cols, n % cols>>

\* the exception membershipGridSearch raises for its two index arguments
\* (sequences, empty for None), "none" when it returns
MembershipRaises(index_distance_modulus, index_pixel_target) ==
    IF (index_distance_modulus = <<>>) # (index_pixel_target = <<>>)
    THEN "NameError"       \* the global name likelihood is not defined
    ELSE IF log_likelihood_sparse_array = <<>> \/ u_color = <<>>
    THEN "AttributeError"  \* no grid search has set the attribute
    ELSE "none"

\* membershipGridSearch(index_distance_modulus, index_pixel_target)
MembershipGridSearch ==
    /\ pc = "ready"
    /\ calls_left > 0
    /\ \E index_distance_modulus \in {<<>>, <<0>>},
          index_pixel_target \in {<<>>, <<0>>} :
        LET e == MembershipRaises(index_distance_modulus, index_pixel_target)
            at == IF index_distance_modulus = <<>>
                  THEN UnravelArgMax(log_likelihood_sparse_array)
                  ELSE <<index_distance_modulus[1], index_pixel_target[1]>>
            richness == richness_sparse_array[at[1] + 1][at[2] + 1]
        IN  IF e # "none"
            THEN /\ exception' = e
                 /\ pc' = "raised"
                 /\ UNCHANGED <<kernel, calls, results>>
            ELSE /\ kernel' = [lon |-> centers_lon_target[at[2] + 1],
                               lat |-> centers_lat_target[at[2] + 1]]
                 /\ calls' = Append(calls, <<"surfaceIntensity", at[2]>>)
                 /\ results' =
                        NdArray(logLikelihood(richness, at[2], u_color,
                                              observable_fraction_sparse,
                                              b).p)
                 /\ pc' = "membership"
                 /\ UNCHANGED exception
    /\ UNCHANGED <<envVars, callVars, log, preVars, args, ii, jj, u_color,
                   observable_fraction_sparse, u, f, optVars, arrayVars,
                   outfile>>

\* a routine has returned to its caller
Returned == pc \in {"searched", "searched2", "membership"}

\* the caller keeps the arrays of a gridSearch call that returned and goes
\* on to its next call
NextCall ==
    /\ Returned
    /\ history' = IF pc = "searched"
                  THEN Append(history,
                              [args |-> args,
                               log_likelihood |-> log_likelihood_sparse_array,
                               richness |-> richness_sparse_array])
                  ELSE history
    /\ calls_left' = calls_left - 1
    /\ pc' = "ready"
    /\ UNCHANGED <<exception, envVars, richness_error_sparse_array, gs2,
                   auxVars, calls, log, preVars, loopVars, u, f, optVars,
                   arrayVars, results, outfile>>

NextCalls ==
    \/ Construct
    \/ PrecomputeGrid
    \/ PrecomputeDistance
    \/ PrecomputeEnd
    \/ GridSearchCall
    \/ GridRow
    \/ GridCellEnter
    \/ MaximizeBegin
    \/ MaximizeLoop
    \/ MaximizeReturn
    \/ GridCellStore
    \/ GridRowEnd
    \/ GridSearch2Begin
    \/ GridRow2
    \/ GridCell2Enter
    \/ GridCell2Iterate
    \/ GridCell2Store
    \/ GridRow2End
    \/ MembershipGridSearch
    \/ NextCall

SpecCalls == InitCalls /\ [][NextCalls]_vars

\* C11: on one instance, with one precomputed grid, any two calls of
\* gridSearch with the same arguments that return produce identical
\* log-likelihood and richness arrays, whatever was called in between.
C11_GridSearchDeterministic ==
    \A m, n \in 1..Len(history) :
        history[m].args = history[n].args =>
            /\ history[m].log_likelihood = history[n].log_likelihood
            /\ history[m].richness = history[n].richness

\* the precomputation has ended and a grid-search routine may run
Searching == pc \notin {"new", "constructed", "precompute"}

\* C19: no step of gridSearch, gridSearch2 or membershipGridSearch changes
\* b, u_color_array, observable_fraction_sparse_array or
\* distance_modulus_array as precomputeGridSearch left them.
C19_PrecomputedStateUnchanged ==
    [][Searching => UNCHANGED preVars]_vars

====
